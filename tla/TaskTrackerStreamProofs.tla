---------------------- MODULE TaskTrackerStreamProofs ----------------------
(***************************************************************************)
(* Proofs about what TaskTracker shows to its clients, in memory and from  *)
(* disk, for every set of chats and clients and every bound: the order and *)
(* completeness of a stream, its single end, the freshness and durability  *)
(* of the replay file.  They rest on the registry invariant IInv of        *)
(* TaskTrackerProofs.                                                      *)
(***************************************************************************)
EXTENDS TaskTrackerProofs

\* A run in these phases may still put something on its subscribers' queues.
CanSend(r) == phase[r] = "placeholder" \/ Unfinalised(r)

\* Whoever is subscribed to a run that can still send is a request that is
\* served by this run and has not been told the end.
ServedBySender ==
    \A r \in Runs : CanSend(r) => \A c \in subs[r] :
        /\ at[c] \in {"deleting", "streaming", "detaching"}
        /\ from[c] = r /\ target[c] = key[r]
        /\ \A i \in DOMAIN queue[c] : queue[c][i] # SENTINEL

\* A run has no events before its producer task exists.
FreshBuffer ==
    \A r \in Runs : phase[r] \in {"unused", "placeholder"} => buffer[r] = <<>>

\* The number of the newest event of a buffer.
Newest(b) == IF b = <<>> THEN 0 ELSE b[Len(b)]

\* A buffer with consecutive events, the first of which is at least 1.
IsWindow(b) ==
    /\ Len(b) <= Newest(b)
    /\ \A i \in DOMAIN b : b[i] = Newest(b) - Len(b) + i

\* A replay buffer is a window of the run's events.
BufferIsWindow == \A r \in Runs : IsWindow(buffer[r])

\* Where the events stand in a sequence put on a queue.
EventsIn(s) == {i \in DOMAIN s : s[i] > 0}

\* What Contiguous says of the queue s of a subscriber and the buffer b of its
\* run: the events come in order, reach the newest without a gap and cover b.
JoinsUp(s, b) ==
    /\ \A i, j \in EventsIn(s) : i < j => s[i] < s[j]
    /\ \A i \in EventsIn(s) :
         /\ s[i] <= Newest(b)
         /\ \A e \in s[i] .. Newest(b) : \E j \in EventsIn(s) : s[j] = e
    /\ \A n \in DOMAIN b : \E j \in EventsIn(s) : s[j] = b[n]

\* It holds of the client that starts the run from the beginning.
JoinedFromStart ==
    \A c \in Clients :
        at[c] \in {"deleting", "streaming"} /\ from[c] # 0 /\ c \in subs[from[c]]
          => JoinsUp(queue[c], buffer[from[c]])

StreamInv == /\ IInv /\ ServedBySender /\ FreshBuffer /\ BufferIsWindow
             /\ JoinedFromStart /\ NothingAfterSentinel

\* Runs are used in the order of their numbers.
UsedIsPrefix == \A r \in Used, q \in Runs : q <= r => q \in Used

\* The run registered for a chat is the newest one it ever had.
NewestRegistered == \A r \in Used : runs[key[r]] # 0 => r <= runs[key[r]]

\* The request that deletes a replay file deletes that of its run's chat, and
\* a file is unlinked by its reader only when retention can pass.
DeletesOwnFile ==
    \A c \in Clients : /\ at[c] = "deleting" => target[c] = key[from[c]]
                       /\ at[c] = "unlinking" => TTLElapses

\* The producer of a write is where it waits for it, the final write carries
\* the whole buffer, and the producer has no other one in flight.
Attended(w) ==
    /\ phase[w.run] \in IF w.final THEN {"flushing", "sealing"}
                                   ELSE {"persisting", "draining"}
    /\ w.final => w.events = buffer[w.run]
    /\ \A v \in writes : v.run = w.run => v = w

\* A write in flight is attended by its producer, unless that left one behind.
WritesAttended == \A w \in writes : Attended(w) \/ LeftBehind(w.run)

\* Only a producer is cancelled, and it drains a write once it has been.
DrainsOnceCancelled ==
    \A r \in Runs : /\ phase[r] \in {"draining", "sealing"} => cancels[r] > 0
                    /\ phase[r] = "unused" => cancels[r] = 0

\* Run r is the newest one its chat has had.
NewestOfChat(r) == \A q \in Used : key[q] = key[r] => q <= r

\* ... and none of its chat's runs has left a write behind.
Undisturbed(r) == \A q \in Used : key[q] = key[r] => q <= r /\ ~LeftBehind(q)

\* Run r has got as far as its final write.
Ended(r) == phase[r] \in {"flushing", "sealing", "done"} /\ buffer[r] # <<>>

Durable(r) == disk[key[r]] = [run |-> r, events |-> buffer[r]]

\* The newest run of a chat that has ended is on disk, or on its way there.
EndedIsDurable ==
    faults = 0 /\ ~TTLElapses => \A r \in Runs :
        Ended(r) /\ Undisturbed(r)
          => Durable(r) \/ \E w \in writes : w.run = r /\ w.final

ReplayInv ==
    /\ IInv /\ UsedIsPrefix /\ NewestRegistered /\ DeletesOwnFile
    /\ DrainsOnceCancelled /\ WritesAttended /\ NoStaleReplay /\ EndedIsDurable

-----------------------------------------------------------------------------
(* What the steps do to the variables these invariants speak of *)

\* How a cancellation changes the phases.
LEMMA CancelledPhases ==
    ASSUME TypeOK, NEW r \in Runs, RaiseCancelled(r) \/ GiveUpWrite(r)
    PROVE  /\ \A p \in Runs \ {r} : phase'[p] = phase[p]
           /\ phase[r] \in Producing
           /\ phase'[r] \in {"finishing", "killed", "draining", "sealing", "done"}
           /\ phase'[r] \in {"sealing", "done"} => phase[r] \in {"flushing", "sealing"}
           /\ key' = key /\ runs' = runs /\ buffer' = buffer /\ disk' = disk
<1>1. PICK p \in {"finishing", "killed", "draining", "sealing", "done"} :
        /\ phase' = [phase EXCEPT ![r] = p]
        /\ p \in {"sealing", "done"} => phase[r] \in {"flushing", "sealing"}
  BY CancelSteps DEF CancelMoves
<1>2. phase \in [Runs -> Phases] /\ phase[r] \in Producing
  BY CancelSteps, VariableTypes
<1>3. \A x \in Runs : phase'[x] = IF x = r THEN p ELSE phase[x]
  BY <1>1, <1>2
<1>. QED
  BY <1>1, <1>2, <1>3, CancelSteps

\* How the end of a write changes the phases.
LEMMA WrittenPhases ==
    ASSUME TypeOK, NEW w \in writes, WriteLands(w) \/ WriteFails(w)
    PROVE  /\ w.run \in Runs
           /\ \A p \in Runs \ {w.run} : phase'[p] = phase[p]
           /\ \/ phase'[w.run] = phase[w.run]
              \/ /\ phase'[w.run] \in {"streaming", "erroring", "finishing", "done"}
                 /\ phase[w.run] \in {"flushing", "sealing", "persisting", "draining"}
                 /\ phase'[w.run] = "done" => phase[w.run] \in {"flushing", "sealing"}
           /\ key' = key /\ runs' = runs /\ buffer' = buffer /\ cancels' = cancels
           /\ writes' = writes \ {w}
<1>1. \/ phase' = phase
      \/ \E p \in {"streaming", "erroring", "finishing", "done"} :
           /\ phase' = [phase EXCEPT ![w.run] = p]
           /\ phase[w.run] \in {"flushing", "sealing", "persisting", "draining"}
           /\ p = "done" => phase[w.run] \in {"flushing", "sealing"}
  BY WriteSteps DEF WriteMoves
<1>2. phase \in [Runs -> Phases] /\ w.run \in Runs
  BY VariableTypes
<1>. QED
  BY <1>1, <1>2, WriteSteps

\* Appending to a client's queue.
LEMMA Appended ==
    ASSUME NEW s \in Seq(Int), NEW e \in Int
    PROVE  /\ DOMAIN s = 1 .. Len(s) /\ Len(s) \in Nat
           /\ DOMAIN Append(s, e) = 1 .. Len(s) + 1
           /\ Len(Append(s, e)) = Len(s) + 1
           /\ \A i \in 1 .. Len(s) : Append(s, e)[i] = s[i]
           /\ Append(s, e)[Len(s) + 1] = e
OBVIOUS

\* Nothing on a queue is its end; its end is at most its last item.
NoEnd(s)  == \A i \in DOMAIN s : s[i] # SENTINEL
OneEnd(s) == \A i \in DOMAIN s : s[i] = SENTINEL => i = Len(s)

\* What is put on a queue that has no end yet may end it.
LEMMA EndIsLast ==
    ASSUME NEW s \in Seq(Int), NEW x \in Int, NoEnd(s)
    PROVE  /\ OneEnd(Append(s, x))
           /\ x # SENTINEL => NoEnd(Append(s, x))
<1>1. ASSUME NEW i \in 1 .. Len(s) + 1
      PROVE  /\ Append(s, x)[i] = SENTINEL => i = Len(s) + 1
             /\ x # SENTINEL => Append(s, x)[i] # SENTINEL
  <2>1. CASE i \in 1 .. Len(s)
    BY <2>1, Appended DEF NoEnd
  <2>2. CASE i = Len(s) + 1
    BY <2>2, Appended
  <2>. QED
    BY <2>1, <2>2
<1>. QED
  BY <1>1, Appended DEF NoEnd, OneEnd

\* The newest event has a number.
LEMMA LastEventNat ==
    ASSUME TypeOK, NEW r \in Runs
    PROVE  LastEvent(r) \in Nat
BY EventType

-----------------------------------------------------------------------------
(* Joining replay and live events *)

LEMMA NewestType ==
    ASSUME NEW b \in Seq(Nat)
    PROVE  Newest(b) \in Nat
<1>1. CASE b = <<>>
  BY <1>1 DEF Newest
<1>2. CASE b # <<>>
  BY <1>2 DEF Newest
<1>. QED
  BY <1>1, <1>2

\* t is a window that the event e makes of b.
Grown(b, t, e) ==
    /\ t \in Seq(Nat) /\ Len(t) \in 1 .. Len(b) + 1
    /\ Newest(t) = e
    /\ \A i \in 1 .. Len(t) : t[i] = e - Len(t) + i

\* What a buffer is after an event, trimmed or not: a window that ends with
\* this event and reaches back no further than before.
LEMMA WindowGrows ==
    ASSUME NEW b \in Seq(Nat), IsWindow(b), NEW e \in Nat, e = Newest(b) + 1,
           NEW t \in {Append(b, e), Trim(Append(b, e))}
    PROVE  Grown(b, t, e) /\ IsWindow(t)
<1> DEFINE a == Append(b, e)
<1>1. /\ Len(b) \in Nat /\ Newest(b) \in Nat
      /\ a \in Seq(Nat) /\ Len(a) = Len(b) + 1
      /\ \A i \in 1 .. Len(b) : a[i] = b[i]
      /\ a[Len(b) + 1] = e
  <2>1. Newest(b) \in Nat
    BY e = Newest(b) + 1 DEF IsWindow, Newest
  <2>. QED
    BY <2>1
<1>2. \A i \in 1 .. Len(a) : a[i] = e - Len(a) + i
  <2>1. ASSUME NEW i \in 1 .. Len(b)
        PROVE  a[i] = e - Len(a) + i
    BY <1>1 DEF IsWindow
  <2>. HIDE DEF a
  <2>2. ASSUME NEW i \in 1 .. Len(a), i \notin 1 .. Len(b)
        PROVE  a[i] = e - Len(a) + i
    <3>1. i = Len(b) + 1
      BY <1>1, <2>2
    <3>2. a[i] = e
      BY <1>1, <3>1
    <3>. QED
      BY <1>1, <3>1, <3>2
  <2>. QED
    BY <2>1, <2>2
<1>3. BufferCap \in Nat \ {0}
  BY BoundsAssumption
<1>. HIDE DEF a
<1>4. /\ t \in Seq(Nat) /\ Len(t) \in 1 .. Len(b) + 1
      /\ \A i \in 1 .. Len(t) : t[i] = e - Len(t) + i
  <2>1. CASE t = a
    BY <1>1, <1>2, <2>1
  <2>2. CASE t = SubSeq(a, Len(a) - BufferCap + 1, Len(a)) /\ Len(a) > BufferCap
    <3> DEFINE m == Len(a) - BufferCap + 1
    <3>1. m \in 1 .. Len(a) /\ Len(a) \in Nat
      BY <1>1, <1>3, <2>2
    <3>2. m <= Len(a) /\ m \in Int /\ \A j \in m .. Len(a) : a[j] \in Nat
      BY <1>1, <1>3, <3>1, ElementOfSeq
    <3>3. t \in Seq(Nat)
      BY <2>2, <3>1, <3>2, SubSeqProperties
    <3>4. Len(t) = Len(a) - m + 1
      BY <2>2, <3>1, <3>2, SubSeqProperties
    <3>5. Len(t) = BufferCap
      BY <1>3, <3>1, <3>4
    <3>6. \A i \in 1 .. Len(t) : t[i] = a[m + i - 1]
      BY <2>2, <3>1, <3>2, <3>4, SubSeqProperties
    <3>7. ASSUME NEW i \in 1 .. Len(t)
          PROVE  t[i] = e - Len(t) + i
      <4>1. m + i - 1 \in 1 .. Len(a)
        BY <1>3, <2>2, <3>1, <3>5
      <4>2. a[m + i - 1] = e - Len(a) + (m + i - 1)
        BY <1>2, <4>1
      <4>3. e - Len(a) + (m + i - 1) = e - Len(t) + i
        BY <1>3, <3>1, <3>5
      <4>. QED
        BY <3>6, <4>2, <4>3
    <3>8. Len(t) \in 1 .. Len(b) + 1
      BY <1>1, <1>3, <2>2, <3>5
    <3>. QED
      BY <3>3, <3>7, <3>8
  <2>. QED
    BY <2>1, <2>2 DEF Trim, a
<1>5. t # <<>> /\ Newest(t) = e
  <2>1. t # <<>> /\ Len(t) \in 1 .. Len(t)
    BY <1>1, <1>4
  <2>2. t[Len(t)] = e - Len(t) + Len(t)
    BY <1>4, <2>1
  <2>3. e - Len(t) + Len(t) = e
    BY <1>4
  <2>. QED
    BY <2>1, <2>2, <2>3 DEF Newest
<1>6. IsWindow(t)
  <2>1. Len(b) <= Newest(b)
    BY DEF IsWindow
  <2>2. Len(t) <= e /\ DOMAIN t = 1 .. Len(t)
    BY <1>1, <1>4, <2>1
  <2>. QED
    BY <1>4, <1>5, <2>2 DEF IsWindow
<1>7. Grown(b, t, e)
  BY <1>4, <1>5, Zenon DEF Grown
<1>. QED
  BY <1>6, <1>7

\* The events in a queue that something is put on.
LEMMA EventsAppended ==
    ASSUME NEW s \in Seq(Int), NEW x \in Int
    PROVE  /\ EventsIn(Append(s, x)) =
                EventsIn(s) \cup (IF x > 0 THEN {Len(s) + 1} ELSE {})
           /\ \A i \in EventsIn(s) : i \in 1 .. Len(s) /\ Append(s, x)[i] = s[i]
           /\ Append(s, x)[Len(s) + 1] = x
BY Appended DEF EventsIn

LEMMA LastGrown ==
    ASSUME NEW b \in Seq(Nat), NEW e \in Nat, NEW t, Grown(b, t, e)
    PROVE  t[Len(t)] = e
<1>1. Newest(t) = e /\ t # <<>>
  BY DEF Grown
<1>. QED
  BY <1>1, Zenon DEF Newest

\* An event of t, the newest aside, has its place in b.
LEMMA SamePlace ==
    ASSUME NEW b \in Seq(Nat), IsWindow(b),
           NEW e, e = Newest(b) + 1, NEW t, Grown(b, t, e),
           NEW p \in 1 .. Len(t), p # Len(t)
    PROVE  \E m \in DOMAIN b : b[m] = t[p]
<1> DEFINE m == p - Len(t) + Len(b) + 1
<1>1. /\ Newest(b) \in Nat /\ Len(b) \in Nat /\ DOMAIN b = 1 .. Len(b)
      /\ Len(t) \in 1 .. Len(b) + 1
  BY NewestType DEF Grown
<1>2. t[p] = e - Len(t) + p
  BY Zenon DEF Grown
<1>3. m \in DOMAIN b
  BY <1>1
<1>4. b[m] = Newest(b) - Len(b) + m
  BY <1>3, Zenon DEF IsWindow
<1>5. Newest(b) - Len(b) + m = e - Len(t) + p
  BY <1>1
<1>6. b[m] = t[p]
  BY <1>2, <1>4, <1>5, Zenon
<1>. QED
  BY <1>3, <1>6

\* What is not after an event is before the next one.
LEMMA BeforeNext ==
    ASSUME NEW x \in Int, NEW y \in Int, NEW e \in Int, e = x + 1, y <= x
    PROVE  y < e
OBVIOUS

\* An event sent to a queue keeps it joined with the window that the event makes
\* of the buffer.
LEMMA JoinsWindow ==
    ASSUME NEW s \in Seq(Int), NEW b \in Seq(Nat), IsWindow(b), JoinsUp(s, b),
           NEW e, e = Newest(b) + 1, NEW t, Grown(b, t, e)
    PROVE  JoinsUp(Append(s, e), t)
<1> DEFINE a == Append(s, e)
           n == Len(s) + 1
<1>1. /\ Newest(b) \in Nat /\ e \in Nat /\ e > 0 /\ Newest(t) = e
      /\ DOMAIN t = 1 .. Len(t)
  BY NewestType DEF Grown
<1>7. t[Len(t)] = e
  BY <1>1, LastGrown
<1>2. /\ EventsIn(a) = EventsIn(s) \cup {n} /\ a[n] = e
      /\ \A i \in EventsIn(s) : i \in 1 .. Len(s) /\ a[i] = s[i] /\ s[i] \in Int
  <2>1. e > 0 /\ e \in Int
    BY <1>1
  <2>2. \A i \in EventsIn(s) : s[i] \in Int
    BY DEF EventsIn
  <2>. QED
    BY <2>1, <2>2, EventsAppended
<1>3. n \in Nat /\ Len(s) \in Nat
  OBVIOUS
<1>. HIDE DEF a
<1>4. ASSUME NEW i \in EventsIn(a), NEW j \in EventsIn(a), i < j
      PROVE  a[i] < a[j]
  <2>1. i \in EventsIn(s)
    BY <1>2, <1>3, <1>4
  <2>2. CASE j = n
    <3>1. a[j] = e /\ a[i] = s[i] /\ s[i] \in Int
      BY <1>2, <2>1, <2>2
    <3>2. s[i] <= Newest(b)
      BY <2>1 DEF JoinsUp
    <3>3. Newest(b) \in Int /\ e \in Int
      BY <1>1
    <3>4. s[i] < e
      BY <3>1, <3>2, <3>3, BeforeNext, Zenon
    <3>. QED
      BY <3>1, <3>4, Zenon
  <2>3. CASE j \in EventsIn(s)
    BY <1>2, <1>4, <2>1, <2>3 DEF JoinsUp
  <2>. QED
    BY <1>2, <2>2, <2>3
<1>5. ASSUME NEW i \in EventsIn(a)
      PROVE  a[i] <= e /\ \A f \in a[i] .. e : \E j \in EventsIn(a) : a[j] = f
  <2>1. CASE i = n
    <3>1. a[i] = e
      BY <1>2, <2>1, Zenon
    <3>2. e <= e /\ \A f \in e .. e : f = e
      BY <1>1
    <3>. QED
      BY <3>1, <3>2, Zenon
  <2>2. CASE i \in EventsIn(s)
    <3>1. s[i] <= Newest(b) /\ \A f \in s[i] .. Newest(b) : \E j \in EventsIn(s) : s[j] = f
      BY <2>2 DEF JoinsUp
    <3>2. ASSUME NEW f \in a[i] .. e
          PROVE  \E j \in EventsIn(a) : a[j] = f
      <4>1. CASE f = e
        BY <1>2, <4>1
      <4>2. CASE f # e
        <5>1. a[i] = s[i] /\ s[i] \in Int
          BY <1>2, <2>2
        <5>2. f \in s[i] .. Newest(b)
          BY <1>1, <4>2, <5>1
        <5>. QED
          BY <1>2, <3>1, <5>2
      <4>. QED
        BY <4>1, <4>2
    <3>3. a[i] = s[i] /\ s[i] \in Int
      BY <1>2, <2>2
    <3>4. a[i] <= e
      BY <1>1, <3>1, <3>3
    <3>. QED
      BY <3>2, <3>4
  <2>. QED
    BY <1>2, <2>1, <2>2
<1>6. ASSUME NEW p \in DOMAIN t
      PROVE  \E j \in EventsIn(a) : a[j] = t[p]
  <2>1. p \in 1 .. Len(t)
    BY <1>1
  <2>2. CASE p = Len(t)
    <3>1. t[p] = e
      BY <1>7, <2>2
    <3>. QED
      BY <1>2, <3>1, Zenon
  <2>3. CASE p # Len(t)
    <3>1. PICK m \in DOMAIN b : b[m] = t[p]
      BY <2>1, <2>3, SamePlace
    <3>2. PICK j \in EventsIn(s) : s[j] = b[m]
      BY Zenon DEF JoinsUp
    <3>. QED
      BY <1>2, <3>1, <3>2, Zenon
  <2>. QED
    BY <2>2, <2>3
<1>. QED
  BY <1>1, <1>4, <1>5, <1>6 DEF JoinsUp, a

\* The next event keeps a queue joined with the buffer it enters.
LEMMA JoinsNextEvent ==
    ASSUME NEW s \in Seq(Int), NEW b \in Seq(Nat), IsWindow(b), JoinsUp(s, b),
           NEW e \in Nat, e = Newest(b) + 1,
           NEW t \in {Append(b, e), Trim(Append(b, e))}
    PROVE  JoinsUp(Append(s, e), t)
<1>1. Grown(b, t, e)
  BY WindowGrows
<1>. QED
  BY <1>1, JoinsWindow

\* A mark on the queue, replay_end or the sentinel, is no event.
LEMMA JoinsMark ==
    ASSUME NEW s \in Seq(Int), NEW b, JoinsUp(s, b), NEW x \in {REPLAY_END, SENTINEL}
    PROVE  JoinsUp(Append(s, x), b)
<1> DEFINE a == Append(s, x)
<1>1. x \in Int /\ ~(x > 0)
  BY DEF REPLAY_END, SENTINEL
<1>2. EventsIn(a) = EventsIn(s) /\ \A i \in EventsIn(s) : a[i] = s[i]
  <2>1. (IF x > 0 THEN {Len(s) + 1} ELSE {}) = {}
    BY <1>1
  <2>2. EventsIn(a) = EventsIn(s) \cup (IF x > 0 THEN {Len(s) + 1} ELSE {})
    BY <1>1, EventsAppended
  <2>3. \A i \in EventsIn(s) : a[i] = s[i]
    BY <1>1, EventsAppended
  <2>. QED
    BY <2>1, <2>2, <2>3
<1>. HIDE DEF a
<1>3. JoinsUp(a, b)
  BY <1>2 DEF JoinsUp
<1>. QED
  BY <1>3 DEF a

\* The replay itself is joined with the buffer it is copied from.
LEMMA JoinsReplay ==
    ASSUME NEW b \in Seq(Nat), IsWindow(b)
    PROVE  JoinsUp(b, b)
<1>1. Len(b) \in Nat /\ Newest(b) \in Nat
  <2>1. CASE b = <<>>
    BY <2>1 DEF Newest
  <2>2. CASE b # <<>>
    BY <2>2 DEF Newest
  <2>. QED
    BY <2>1, <2>2
<1>2. \A i \in 1 .. Len(b) : b[i] = Newest(b) - Len(b) + i
  BY DEF IsWindow
<1>3. Len(b) <= Newest(b)
  BY DEF IsWindow
<1>4. EventsIn(b) = 1 .. Len(b)
  BY <1>1, <1>2, <1>3 DEF EventsIn
<1>5. ASSUME NEW i \in 1 .. Len(b), NEW e \in b[i] .. Newest(b)
      PROVE  \E j \in 1 .. Len(b) : b[j] = e
  <2> DEFINE j == e - Newest(b) + Len(b)
  <2>1. j \in 1 .. Len(b)
    BY <1>1, <1>2, <1>3
  <2>2. b[j] = Newest(b) - Len(b) + j
    BY <1>2, <2>1, Zenon
  <2>3. b[i] \in Int
    BY <1>1, <1>2
  <2>4. Newest(b) - Len(b) + j = e
    BY <1>1, <2>3
  <2>. QED
    BY <2>1, <2>2, <2>4, Zenon
<1>6. \A i, j \in 1 .. Len(b) : i < j => b[i] < b[j]
  BY <1>1, <1>2
<1>7. \A i \in 1 .. Len(b) : b[i] <= Newest(b)
  BY <1>1, <1>2
<1>8. \A i \in EventsIn(b) : \A e \in b[i] .. Newest(b) :
          \E j \in EventsIn(b) : b[j] = e
  BY <1>4, <1>5, Zenon
<1>9. \A n \in DOMAIN b : \E j \in EventsIn(b) : b[j] = b[n]
  <2>1. DOMAIN b = EventsIn(b)
    BY <1>4
  <2>. QED
    BY <2>1, Zenon
<1>10. \A i, j \in EventsIn(b) : i < j => b[i] < b[j]
  BY <1>4, <1>6, Zenon
<1>11. \A i \in EventsIn(b) : b[i] <= Newest(b)
  BY <1>4, <1>7, Zenon
<1>. QED
  BY <1>8, <1>9, <1>10, <1>11, Zenon DEF JoinsUp

\* The marks after a replay, one by one.
LEMMA ReplayMarks ==
    ASSUME NEW b \in Seq(Nat)
    PROVE  /\ b \o <<REPLAY_END>> \o <<SENTINEL>> = Append(Append(b, REPLAY_END), SENTINEL)
           /\ b \o <<REPLAY_END>> \o <<>> = Append(b, REPLAY_END)
           /\ b \o <<REPLAY_END, SENTINEL>> = Append(Append(b, REPLAY_END), SENTINEL)
<1>1. b \in Seq(Int) /\ REPLAY_END \in Int /\ SENTINEL \in Int
  BY SeqMonotonic, Nat \subseteq Int DEF REPLAY_END, SENTINEL
<1>. QED
  BY <1>1

\* A replay that goes on does not hold the sentinel.
LEMMA NoEndYet ==
    ASSUME NEW b \in Seq(Nat), NEW s, s = b \o <<REPLAY_END>> \o <<>>
    PROVE  \A i \in DOMAIN s : s[i] # SENTINEL
<1>1. /\ DOMAIN s = 1 .. Len(b) + 1 /\ Len(b) \in Nat
      /\ \A i \in 1 .. Len(b) : s[i] = b[i] /\ b[i] \in Nat
      /\ s[Len(b) + 1] = REPLAY_END
  BY DEF REPLAY_END
<1>2. \A i \in DOMAIN s : i \in 1 .. Len(b) \/ i = Len(b) + 1
  BY <1>1
<1>. QED
  BY <1>1, <1>2 DEF SENTINEL, REPLAY_END

\* Every step keeps the subscribers of a sending run with it: whoever leaves
\* takes its queue off the run registered for its chat, which is the sending one.
LEMMA ServedBySenderStep ==
    ASSUME StreamInv, Next, NEW q \in Runs, NEW d \in subs'[q], CanSend(q)'
    PROVE  /\ at'[d] \in {"deleting", "streaming", "detaching"}
           /\ from'[d] = q /\ target'[d] = key'[q]
           /\ \A i \in DOMAIN queue'[d] : queue'[d][i] # SENTINEL
<1>. DEFINE Goal == /\ at'[d] \in {"deleting", "streaming", "detaching"}
                    /\ from'[d] = q /\ target'[d] = key'[q]
                    /\ \A i \in DOMAIN queue'[d] : queue'[d][i] # SENTINEL
<1>. TypeOK /\ ServedBySender /\ LiveRunIsRegistered /\ DeletingHolds /\ RegisteredIsUsed
  BY DEF StreamInv, IInv, RegInv
<1>a. ASSUME CanSend(q), d \in subs[q]
      PROVE  /\ at[d] \in {"deleting", "streaming", "detaching"}
             /\ from[d] = q /\ target[d] = key[q]
             /\ \A i \in DOMAIN queue[d] : queue[d][i] # SENTINEL
             /\ d \in Clients
  BY <1>a, VariableTypes DEF ServedBySender
<1>1. ASSUME NEW c \in Clients, NEW k \in Keys,
             NEW op \in {"attaching", "starting", "stopping"}, Call(c, op, k)
      PROVE  Goal
  BY <1>1, VariableTypes DEF Call, runVars, diskVars, ServedBySender, CanSend,
     Unfinalised, Producing
<1>2. ASSUME NEW c \in Clients, NEW k \in Keys, Attach(c, k)
      PROVE  Goal
  <2>1. PICK cut \in Cuts :
          /\ runs' = Purged(cut)
          /\ runs'[k] # 0
          /\ Subscribe(c, k, runs'[k],
                       buffer[runs'[k]] \o <<REPLAY_END>>
                         \o (IF Done(runs'[k]) THEN <<SENTINEL>> ELSE <<>>))
    BY <1>2 DEF Attach
  <2>2. runs'[k] \in Runs /\ key[runs'[k]] = k
    BY <2>1, PurgeKeepsLive DEF RegisteredIsUsed
  <2>3. phase' = phase /\ key' = key /\ at[c] \notin {"deleting", "streaming", "detaching"}
    BY <1>2 DEF Attach, Requested
  <2>4. CanSend(q) /\ ~Done(q)
    BY <2>3 DEF CanSend, Unfinalised, Producing, Done, Finished
  <2>5. CASE d = c
    <3>1. c \notin subs[q] /\ q = runs'[k]
      BY <1>a, <2>1, <2>2, <2>3, <2>4, <2>5, VariableTypes DEF Subscribe
    <3>2. queue'[c] = buffer[q] \o <<REPLAY_END>> \o <<>>
      BY <2>1, <2>4, <3>1, VariableTypes DEF Subscribe
    <3>3. \A i \in DOMAIN queue'[c] : queue'[c][i] # SENTINEL
      <4>1. buffer[q] \in Seq(Nat)
        BY VariableTypes
      <4>. QED
        BY <3>2, <4>1, NoEndYet, Zenon
    <3> QED
      BY <2>1, <2>2, <2>3, <2>5, <3>1, <3>3, VariableTypes DEF Subscribe
  <2>6. CASE d # c
    BY <1>a, <2>1, <2>2, <2>3, <2>4, <2>6, VariableTypes DEF Subscribe
  <2> QED
    BY <2>5, <2>6
<1>3. ASSUME NEW c \in Clients, NEW k \in Keys, AttachMisses(c, k)
      PROVE  Goal
  <2>1. /\ phase' = phase /\ key' = key /\ subs' = subs /\ from' = from /\ queue' = queue
        /\ at' = [at EXCEPT ![c] = "reading"] /\ target' = [target EXCEPT ![c] = k]
        /\ at[c] \notin {"deleting", "streaming", "detaching"}
    BY <1>3 DEF AttachMisses, Requested, runVars
  <2>2. CanSend(q) /\ d \in subs[q]
    BY <2>1 DEF CanSend, Unfinalised
  <2> QED
    BY <1>a, <2>1, <2>2, VariableTypes
<1>4. ASSUME NEW c \in Clients, NEW k \in Keys, Join(c, k)
      PROVE  Goal
  <2>1. PICK cut \in Cuts :
          /\ runs' = Purged(cut)
          /\ runs'[k] # 0
          /\ Subscribe(c, k, runs'[k], buffer[runs'[k]])
    BY <1>4 DEF Join
  <2>2. runs'[k] \in Runs /\ key[runs'[k]] = k
    BY <2>1, PurgeKeepsLive DEF RegisteredIsUsed
  <2>3. phase' = phase /\ key' = key /\ at[c] \notin {"deleting", "streaming", "detaching"}
    BY <1>4 DEF Join, Requested
  <2>4. CanSend(q)
    BY <2>3 DEF CanSend, Unfinalised
  <2>5. CASE d = c
    <3>1. c \notin subs[q] /\ q = runs'[k]
      BY <1>a, <2>1, <2>2, <2>3, <2>4, <2>5, VariableTypes DEF Subscribe
    <3>2. queue'[c] = buffer[q]
      BY <2>1, <3>1, VariableTypes DEF Subscribe
    <3>3. \A i \in DOMAIN queue'[c] : queue'[c][i] # SENTINEL
      BY <3>2, VariableTypes DEF SENTINEL
    <3> QED
      BY <2>1, <2>2, <2>3, <2>5, <3>1, <3>3, VariableTypes DEF Subscribe
  <2>6. CASE d # c
    BY <1>a, <2>1, <2>2, <2>3, <2>4, <2>6, VariableTypes DEF Subscribe
  <2> QED
    BY <2>5, <2>6
<1>5. ASSUME NEW c \in Clients, NEW k \in Keys, Start(c, k)
      PROVE  Goal
  <2>1. PICK r \in Runs \ Used :
          /\ key' = [key EXCEPT ![r] = k]
          /\ phase' = [phase EXCEPT ![r] = "placeholder"]
          /\ subs' = [subs EXCEPT ![r] = {c}]
          /\ from' = [from EXCEPT ![c] = r]
    BY <1>5 DEF Start
  <2>2. /\ at' = [at EXCEPT ![c] = "deleting"] /\ target' = [target EXCEPT ![c] = k]
        /\ queue' = [queue EXCEPT ![c] = <<>>]
        /\ at[c] \notin {"deleting", "streaming", "detaching"}
    BY <1>5 DEF Start, Requested
  <2>3. CASE q = r
    BY <2>1, <2>2, <2>3, VariableTypes
  <2>4. CASE q # r
    <3>1. CanSend(q) /\ d \in subs[q]
      BY <2>1, <2>4, VariableTypes DEF CanSend, Unfinalised
    <3> QED
      BY <1>a, <2>1, <2>2, <2>4, <3>1, VariableTypes
  <2> QED
    BY <2>3, <2>4
<1>6. ASSUME NEW c \in Clients, NEW k \in Keys, Stop(c, k)
      PROVE  Goal
  <2>1. /\ key' = key /\ subs' = subs /\ \A p \in Runs : phase'[p] \in {phase[p], "dropped"}
        /\ \A x \in Clients \ {c} : /\ at'[x] = at[x] /\ from'[x] = from[x]
                                    /\ target'[x] = target[x] /\ queue'[x] = queue[x]
        /\ at[c] \notin {"deleting", "streaming", "detaching"}
    BY <1>6, VariableTypes DEF Stop, Ends, Requested
  <2>2. CanSend(q) /\ d \in subs[q]
    BY <2>1 DEF CanSend, Unfinalised, Producing
  <2> QED
    BY <1>a, <2>1, <2>2, VariableTypes
<1>7. ASSUME NEW c \in Clients, ReadReplay(c)
      PROVE  Goal
  BY <1>7, VariableTypes DEF ReadReplay, runVars, diskVars, lockVars, budgets,
     ServedBySender, CanSend, Unfinalised, Producing
<1>8. ASSUME NEW c \in Clients, ReadNothing(c)
      PROVE  Goal
  BY <1>8, VariableTypes DEF ReadNothing, Ends, runVars, diskVars, lockVars,
     budgets, ServedBySender, CanSend, Unfinalised, Producing
<1>9. ASSUME NEW c \in Clients, ReadExpired(c)
      PROVE  Goal
  BY <1>9, VariableTypes DEF ReadExpired, runVars, diskVars, lockVars, budgets,
     ServedBySender, CanSend, Unfinalised, Producing
<1>10. ASSUME NEW c \in Clients, UnlinkExpired(c)
      PROVE  Goal
  BY <1>10, VariableTypes DEF UnlinkExpired, Ends, runVars, lockVars, budgets,
     ServedBySender, CanSend, Unfinalised, Producing
<1>11. ASSUME NEW c \in Clients, DeleteReplay(c)
      PROVE  Goal
  <2>1. /\ key' = key /\ subs' = subs /\ from' = from /\ queue' = queue /\ target' = target
        /\ phase' = [phase EXCEPT ![from[c]] = "created"]
        /\ at' = [at EXCEPT ![c] = "streaming"]
        /\ from[c] \in Runs /\ phase[from[c]] = "placeholder"
    BY <1>11 DEF DeleteReplay, DeletingHolds
  <2>2. CanSend(q) /\ d \in subs[q]
    BY <2>1, VariableTypes DEF CanSend, Unfinalised
  <2> QED
    BY <1>a, <2>1, <2>2, VariableTypes
<1>12. ASSUME NEW c \in Clients, DeleteFails(c)
      PROVE  Goal
  BY <1>12, VariableTypes DEF DeleteFails, Ends, diskVars, ServedBySender,
     CanSend, Unfinalised, Producing
<1>13. ASSUME NEW c \in Clients, Leave(c)
      PROVE  Goal
  BY <1>13, VariableTypes DEF Leave, runVars, diskVars, budgets, ServedBySender,
     CanSend, Unfinalised, Producing
<1>14. ASSUME NEW c \in Clients, Detach(c)
      PROVE  Goal
  <2>1. /\ key' = key /\ phase' = phase /\ runs' = runs
        /\ subs' = IF runs[target[c]] = 0 THEN subs
                   ELSE [subs EXCEPT ![runs[target[c]]] = @ \ {c}]
        /\ \A x \in Clients \ {c} : /\ at'[x] = at[x] /\ from'[x] = from[x]
                                    /\ target'[x] = target[x] /\ queue'[x] = queue[x]
    BY <1>14, VariableTypes DEF Detach, Ends
  <2>2. CanSend(q) /\ d \in subs[q]
    BY <2>1, VariableTypes DEF CanSend, Unfinalised
  <2>3. runs[key[q]] = q /\ target[d] = key[q]
    BY <1>a, <2>2 DEF LiveRunIsRegistered, Live, CanSend, Unfinalised
  <2>4. d # c
    BY <2>1, <2>3, VariableTypes
  <2> QED
    BY <1>a, <2>1, <2>2, <2>4, VariableTypes
<1>15. ASSUME NEW c \in Clients, StopReturns(c)
      PROVE  Goal
  BY <1>15, VariableTypes DEF StopReturns, Ends, runVars, diskVars, lockVars,
     budgets, ServedBySender, CanSend, Unfinalised, Producing
<1>16. ASSUME NEW r \in Runs, Block(r)
      PROVE  Goal
  <2>1. /\ key' = key /\ subs' = subs /\ UNCHANGED clientVars
        /\ \A p \in Runs : phase'[p] # phase[p] => Unfinalised(p)
    BY <1>16, VariableTypes DEF Block, Unfinalised, Producing
  <2>2. CanSend(q) /\ d \in subs[q]
    BY <2>1 DEF CanSend, Unfinalised
  <2> QED
    BY <1>a, <2>1, <2>2 DEF clientVars
<1>17. ASSUME NEW r \in Runs, Enter(r)
      PROVE  Goal
  BY <1>17, VariableTypes DEF Enter, clientVars, diskVars, budgets,
     ServedBySender, CanSend, Unfinalised, Producing
<1>18. ASSUME NEW r \in Runs, Emit(r)
      PROVE  Goal
  <2> DEFINE e == LastEvent(r) + 1
  <2>1. /\ key' = key /\ subs' = subs /\ at' = at /\ from' = from /\ target' = target
        /\ queue' = Broadcast(r, e)
        /\ Unfinalised(r) /\ \A p \in Runs : p # r => phase'[p] = phase[p]
    BY <1>18, VariableTypes DEF Emit, Unfinalised, Producing
  <2>2. CanSend(q) /\ d \in subs[q]
    BY <2>1, VariableTypes DEF CanSend, Unfinalised, Producing
  <2>3. e \in Nat
    BY LastEventNat
  <2> HIDE DEF e
  <2>4. \A i \in DOMAIN queue'[d] : queue'[d][i] # SENTINEL
    <3>1. queue[d] \in Seq(Int) /\ \A i \in DOMAIN queue[d] : queue[d][i] # SENTINEL
      BY <1>a, <2>2, VariableTypes
    <3>2. queue'[d] \in {queue[d], Append(queue[d], e)}
      BY <1>a, <2>1, <2>2, VariableTypes DEF Broadcast
    <3>3. e \in Int /\ e # SENTINEL /\ NoEnd(queue[d])
      BY <2>3, <3>1 DEF NoEnd, SENTINEL
    <3>4. NoEnd(queue'[d])
      BY <3>1, <3>2, <3>3, EndIsLast
    <3> QED
      BY <3>4 DEF NoEnd
  <2> QED
    BY <1>a, <2>1, <2>2, <2>4
<1>19. ASSUME NEW r \in Runs, StreamEnds(r)
      PROVE  Goal
  BY <1>19, VariableTypes DEF StreamEnds, clientVars, diskVars, budgets,
     ServedBySender, CanSend, Unfinalised, Producing
<1>20. ASSUME NEW r \in Runs, StreamRaises(r)
      PROVE  Goal
  BY <1>20, VariableTypes DEF StreamRaises, clientVars, diskVars,
     ServedBySender, CanSend, Unfinalised, Producing
<1>21. ASSUME NEW r \in Runs, ReportError(r)
      PROVE  Goal
  <2> DEFINE e == LastEvent(r) + 1
  <2>1. /\ key' = key /\ subs' = subs /\ at' = at /\ from' = from /\ target' = target
        /\ queue' = Broadcast(r, e)
        /\ Unfinalised(r) /\ \A p \in Runs : p # r => phase'[p] = phase[p]
    BY <1>21, VariableTypes DEF ReportError, Unfinalised, Producing
  <2>2. CanSend(q) /\ d \in subs[q]
    BY <2>1, VariableTypes DEF CanSend, Unfinalised, Producing
  <2>3. e \in Nat
    BY LastEventNat
  <2> HIDE DEF e
  <2>4. \A i \in DOMAIN queue'[d] : queue'[d][i] # SENTINEL
    <3>1. queue[d] \in Seq(Int) /\ \A i \in DOMAIN queue[d] : queue[d][i] # SENTINEL
      BY <1>a, <2>2, VariableTypes
    <3>2. queue'[d] \in {queue[d], Append(queue[d], e)}
      BY <1>a, <2>1, <2>2, VariableTypes DEF Broadcast
    <3>3. e \in Int /\ e # SENTINEL /\ NoEnd(queue[d])
      BY <2>3, <3>1 DEF NoEnd, SENTINEL
    <3>4. NoEnd(queue'[d])
      BY <3>1, <3>2, <3>3, EndIsLast
    <3> QED
      BY <3>4 DEF NoEnd
  <2> QED
    BY <1>a, <2>1, <2>2, <2>4
<1>22. ASSUME NEW r \in Runs, Finalise(r)
      PROVE  Goal
  <2>1. /\ key' = key /\ subs' = subs /\ at' = at /\ from' = from /\ target' = target
        /\ queue' = Broadcast(r, SENTINEL)
    BY <1>22 DEF Finalise
  <2>2. CanSend(q) /\ d \in subs[q] /\ q # r /\ CanSend(r)
    BY <1>22, <2>1, VariableTypes DEF Finalise, CanSend, Unfinalised, Producing
  <2>3. queue'[d] = queue[d]
    BY <1>a, <2>1, <2>2, VariableTypes DEF Broadcast, ServedBySender
  <2> QED
    BY <1>a, <2>1, <2>2, <2>3
<1>23. ASSUME NEW r \in Runs, RaiseCancelled(r) \/ GiveUpWrite(r)
      PROVE  Goal
  <2>1. /\ key' = key /\ subs' = subs /\ UNCHANGED clientVars
        /\ \A p \in Runs : phase'[p] # phase[p] =>
             Unfinalised(p) \/ phase'[p] \in {"done", "sealing"}
    BY <1>23, CancelSteps, VariableTypes DEF CancelMoves, clientVars, Unfinalised, Producing
  <2>2. CanSend(q) /\ d \in subs[q]
    BY <2>1 DEF CanSend, Unfinalised, Producing
  <2> QED
    BY <1>a, <2>1, <2>2 DEF clientVars
<1>24. ASSUME NEW w \in writes, WriteLands(w) \/ WriteFails(w)
      PROVE  Goal
  <2>1. /\ key' = key /\ subs' = subs /\ UNCHANGED clientVars
        /\ \A p \in Runs : phase'[p] # phase[p] => Unfinalised(p) \/ phase'[p] = "done"
    BY <1>24, WriteSteps, VariableTypes DEF WriteMoves, clientVars, Unfinalised, Producing
  <2>2. CanSend(q) /\ d \in subs[q]
    BY <2>1 DEF CanSend, Unfinalised, Producing
  <2> QED
    BY <1>a, <2>1, <2>2 DEF clientVars
<1>26. ASSUME NEW k \in Keys, PruneReplay(k)
      PROVE  Goal
  BY <1>26, VariableTypes DEF PruneReplay, runVars, clientVars, lockVars,
     budgets, ServedBySender, CanSend, Unfinalised, Producing
<1>27. ASSUME GetStatus
      PROVE  Goal
  BY <1>27, VariableTypes, PurgeKeepsLive DEF GetStatus, runVars, clientVars,
     diskVars, lockVars, budgets, ServedBySender, CanSend, Unfinalised,
     Producing
<1>28. ASSUME Crash
      PROVE  Goal
  BY <1>28, VariableTypes DEF Crash, ServedBySender, CanSend, Unfinalised,
     Producing
<1>. QED
  BY <1>1, <1>2, <1>3, <1>4, <1>5, <1>6, <1>7, <1>8, <1>9, <1>10, <1>11,
     <1>12, <1>13, <1>14, <1>15, <1>16, <1>17, <1>18, <1>19, <1>20, <1>21,
     <1>22, <1>23, <1>24, <1>26, <1>27, <1>28 DEF Next, ClientSteps,
     RunSteps

-----------------------------------------------------------------------------
(* Streams *)

\* A step leaves a run's buffer alone, or puts the next event of a run that is
\* being produced into it.
LEMMA BufferSteps ==
    ASSUME TypeOK, Next, NEW q \in Runs
    PROVE  \/ buffer'[q] = buffer[q]
           \/ /\ phase[q] \in {"streaming", "emitting", "erroring"}
              /\ buffer'[q] \in {Append(buffer[q], LastEvent(q) + 1),
                                 Trim(Append(buffer[q], LastEvent(q) + 1))}
<1>. DEFINE Goal == \/ buffer'[q] = buffer[q]
                    \/ /\ phase[q] \in {"streaming", "emitting", "erroring"}
                       /\ buffer'[q] \in {Append(buffer[q], LastEvent(q) + 1),
                                          Trim(Append(buffer[q], LastEvent(q) + 1))}
<1>1. ASSUME NEW c \in Clients, NEW k \in Keys,
             NEW op \in {"attaching", "starting", "stopping"}, Call(c, op, k)
      PROVE  Goal
  BY <1>1 DEF Call, runVars
<1>2. ASSUME NEW c \in Clients, NEW k \in Keys, Attach(c, k)
      PROVE  Goal
  BY <1>2 DEF Attach
<1>3. ASSUME NEW c \in Clients, NEW k \in Keys, AttachMisses(c, k)
      PROVE  Goal
  BY <1>3 DEF AttachMisses, runVars
<1>4. ASSUME NEW c \in Clients, NEW k \in Keys, Join(c, k)
      PROVE  Goal
  BY <1>4 DEF Join
<1>5. ASSUME NEW c \in Clients, NEW k \in Keys, Start(c, k)
      PROVE  Goal
  BY <1>5 DEF Start
<1>6. ASSUME NEW c \in Clients, NEW k \in Keys, Stop(c, k)
      PROVE  Goal
  BY <1>6 DEF Stop
<1>7. ASSUME NEW c \in Clients, ReadReplay(c)
      PROVE  Goal
  BY <1>7 DEF ReadReplay, runVars
<1>8. ASSUME NEW c \in Clients, ReadNothing(c)
      PROVE  Goal
  BY <1>8 DEF ReadNothing, runVars
<1>9. ASSUME NEW c \in Clients, ReadExpired(c)
      PROVE  Goal
  BY <1>9 DEF ReadExpired, runVars
<1>10. ASSUME NEW c \in Clients, UnlinkExpired(c)
      PROVE  Goal
  BY <1>10 DEF UnlinkExpired, runVars
<1>11. ASSUME NEW c \in Clients, DeleteReplay(c)
      PROVE  Goal
  BY <1>11 DEF DeleteReplay
<1>12. ASSUME NEW c \in Clients, DeleteFails(c)
      PROVE  Goal
  BY <1>12 DEF DeleteFails
<1>13. ASSUME NEW c \in Clients, Leave(c)
      PROVE  Goal
  BY <1>13 DEF Leave, runVars
<1>14. ASSUME NEW c \in Clients, Detach(c)
      PROVE  Goal
  BY <1>14 DEF Detach
<1>15. ASSUME NEW c \in Clients, StopReturns(c)
      PROVE  Goal
  BY <1>15 DEF StopReturns, runVars
<1>16. ASSUME NEW r \in Runs, Block(r)
      PROVE  Goal
  BY <1>16 DEF Block
<1>17. ASSUME NEW r \in Runs, Enter(r)
      PROVE  Goal
  BY <1>17 DEF Enter
<1>18. ASSUME NEW r \in Runs, Emit(r)
      PROVE  Goal
  <2>1. /\ buffer' = [buffer EXCEPT ![r] = Trim(Append(@, LastEvent(r) + 1))]
        /\ phase[r] \in {"streaming", "emitting", "erroring"}
    BY <1>18 DEF Emit
  <2>. QED
    BY <2>1, VariableTypes
<1>19. ASSUME NEW r \in Runs, StreamEnds(r)
      PROVE  Goal
  BY <1>19 DEF StreamEnds
<1>20. ASSUME NEW r \in Runs, StreamRaises(r)
      PROVE  Goal
  BY <1>20 DEF StreamRaises
<1>21. ASSUME NEW r \in Runs, ReportError(r)
      PROVE  Goal
  <2>1. /\ buffer' = [buffer EXCEPT ![r] = Append(@, LastEvent(r) + 1)]
        /\ phase[r] \in {"streaming", "emitting", "erroring"}
    BY <1>21 DEF ReportError
  <2>. QED
    BY <2>1, VariableTypes
<1>22. ASSUME NEW r \in Runs, Finalise(r)
      PROVE  Goal
  BY <1>22 DEF Finalise
<1>23. ASSUME NEW r \in Runs, RaiseCancelled(r) \/ GiveUpWrite(r)
      PROVE  Goal
  BY <1>23, CancelSteps DEF CancelMoves
<1>24. ASSUME NEW w \in writes, WriteLands(w) \/ WriteFails(w)
      PROVE  Goal
  BY <1>24, WriteSteps DEF WriteMoves
<1>26. ASSUME NEW k \in Keys, PruneReplay(k)
      PROVE  Goal
  BY <1>26 DEF PruneReplay, runVars
<1>27. ASSUME GetStatus
      PROVE  Goal
  BY <1>27 DEF GetStatus, runVars
<1>28. ASSUME Crash
      PROVE  Goal
  BY <1>28 DEF Crash
<1>. QED
  BY <1>1, <1>2, <1>3, <1>4, <1>5, <1>6, <1>7, <1>8, <1>9, <1>10, <1>11,
     <1>12, <1>13, <1>14, <1>15, <1>16, <1>17, <1>18, <1>19, <1>20, <1>21,
     <1>22, <1>23, <1>24, <1>26, <1>27, <1>28 DEF Next, ClientSteps,
     RunSteps

\* The buffer of a run stays a window of its events.
LEMMA BufferIsWindowStep ==
    ASSUME TypeOK, BufferIsWindow, Next
    PROVE  BufferIsWindow'
<1>1. ASSUME NEW q \in Runs
      PROVE  IsWindow(buffer'[q])
  <2>1. buffer[q] \in Seq(Nat) /\ IsWindow(buffer[q])
    BY VariableTypes DEF BufferIsWindow
  <2>2. LastEvent(q) + 1 \in Nat /\ LastEvent(q) = Newest(buffer[q])
    BY LastEventNat DEF LastEvent, Newest
  <2>3. CASE buffer'[q] = buffer[q]
    BY <2>1, <2>3
  <2>4. CASE buffer'[q] \in {Append(buffer[q], LastEvent(q) + 1),
                             Trim(Append(buffer[q], LastEvent(q) + 1))}
    BY <2>1, <2>2, <2>4, WindowGrows
  <2>. QED
    BY <2>3, <2>4, BufferSteps
<1>. QED
  BY <1>1 DEF BufferIsWindow

\* A run's buffer is empty until its producer runs.
LEMMA FreshBufferStep ==
    ASSUME TypeOK, FreshBuffer, DeletingHolds, Next
    PROVE  FreshBuffer'
<1>1. ASSUME NEW q \in Runs, phase'[q] \in {"unused", "placeholder"}
      PROVE  phase[q] \in {"unused", "placeholder"}
  <2>1. ASSUME NEW c \in Clients, NEW k \in Keys,
               NEW op \in {"attaching", "starting", "stopping"}, Call(c, op, k)
        PROVE  phase[q] \in {"unused", "placeholder"}
    BY <2>1, <1>1, VariableTypes DEF Call, runVars
  <2>2. ASSUME NEW c \in Clients, NEW k \in Keys, Attach(c, k)
        PROVE  phase[q] \in {"unused", "placeholder"}
    BY <2>2, <1>1, VariableTypes DEF Attach
  <2>3. ASSUME NEW c \in Clients, NEW k \in Keys, AttachMisses(c, k)
        PROVE  phase[q] \in {"unused", "placeholder"}
    BY <2>3, <1>1, VariableTypes DEF AttachMisses, runVars
  <2>4. ASSUME NEW c \in Clients, NEW k \in Keys, Join(c, k)
        PROVE  phase[q] \in {"unused", "placeholder"}
    BY <2>4, <1>1, VariableTypes DEF Join
  <2>5. ASSUME NEW c \in Clients, NEW k \in Keys, Start(c, k)
        PROVE  phase[q] \in {"unused", "placeholder"}
    BY <2>5, <1>1, VariableTypes DEF Start, Used
  <2>6. ASSUME NEW c \in Clients, NEW k \in Keys, Stop(c, k)
        PROVE  phase[q] \in {"unused", "placeholder"}
    BY <2>6, <1>1, VariableTypes DEF Stop
  <2>7. ASSUME NEW c \in Clients, ReadReplay(c)
        PROVE  phase[q] \in {"unused", "placeholder"}
    BY <2>7, <1>1, VariableTypes DEF ReadReplay, runVars
  <2>8. ASSUME NEW c \in Clients, ReadNothing(c)
        PROVE  phase[q] \in {"unused", "placeholder"}
    BY <2>8, <1>1, VariableTypes DEF ReadNothing, runVars
  <2>9. ASSUME NEW c \in Clients, ReadExpired(c)
        PROVE  phase[q] \in {"unused", "placeholder"}
    BY <2>9, <1>1, VariableTypes DEF ReadExpired, runVars
  <2>10. ASSUME NEW c \in Clients, UnlinkExpired(c)
        PROVE  phase[q] \in {"unused", "placeholder"}
    BY <2>10, <1>1, VariableTypes DEF UnlinkExpired, runVars
  <2>11. ASSUME NEW c \in Clients, DeleteReplay(c)
        PROVE  phase[q] \in {"unused", "placeholder"}
    BY <2>11, <1>1, VariableTypes DEF DeleteReplay
  <2>12. ASSUME NEW c \in Clients, DeleteFails(c)
        PROVE  phase[q] \in {"unused", "placeholder"}
    BY <2>12, <1>1, VariableTypes DEF DeleteFails
  <2>13. ASSUME NEW c \in Clients, Leave(c)
        PROVE  phase[q] \in {"unused", "placeholder"}
    BY <2>13, <1>1, VariableTypes DEF Leave, runVars
  <2>14. ASSUME NEW c \in Clients, Detach(c)
        PROVE  phase[q] \in {"unused", "placeholder"}
    BY <2>14, <1>1, VariableTypes DEF Detach
  <2>15. ASSUME NEW c \in Clients, StopReturns(c)
        PROVE  phase[q] \in {"unused", "placeholder"}
    BY <2>15, <1>1, VariableTypes DEF StopReturns, runVars
  <2>16. ASSUME NEW r \in Runs, Block(r)
        PROVE  phase[q] \in {"unused", "placeholder"}
    BY <2>16, <1>1, VariableTypes DEF Block
  <2>17. ASSUME NEW r \in Runs, Enter(r)
        PROVE  phase[q] \in {"unused", "placeholder"}
    BY <2>17, <1>1, VariableTypes DEF Enter
  <2>18. ASSUME NEW r \in Runs, Emit(r)
        PROVE  phase[q] \in {"unused", "placeholder"}
    BY <2>18, <1>1, VariableTypes DEF Emit
  <2>19. ASSUME NEW r \in Runs, StreamEnds(r)
        PROVE  phase[q] \in {"unused", "placeholder"}
    BY <2>19, <1>1, VariableTypes DEF StreamEnds
  <2>20. ASSUME NEW r \in Runs, StreamRaises(r)
        PROVE  phase[q] \in {"unused", "placeholder"}
    BY <2>20, <1>1, VariableTypes DEF StreamRaises
  <2>21. ASSUME NEW r \in Runs, ReportError(r)
        PROVE  phase[q] \in {"unused", "placeholder"}
    BY <2>21, <1>1, VariableTypes DEF ReportError
  <2>22. ASSUME NEW r \in Runs, Finalise(r)
        PROVE  phase[q] \in {"unused", "placeholder"}
    BY <2>22, <1>1, VariableTypes DEF Finalise
  <2>23. ASSUME NEW r \in Runs, RaiseCancelled(r) \/ GiveUpWrite(r)
        PROVE  phase[q] \in {"unused", "placeholder"}
    BY <2>23, <1>1, CancelledPhases DEF Producing
  <2>24. ASSUME NEW w \in writes, WriteLands(w) \/ WriteFails(w)
        PROVE  phase[q] \in {"unused", "placeholder"}
    BY <2>24, <1>1, WrittenPhases
  <2>26. ASSUME NEW k \in Keys, PruneReplay(k)
        PROVE  phase[q] \in {"unused", "placeholder"}
    BY <2>26, <1>1, VariableTypes DEF PruneReplay, runVars
  <2>27. ASSUME GetStatus
        PROVE  phase[q] \in {"unused", "placeholder"}
    BY <2>27, <1>1, VariableTypes DEF GetStatus, runVars
  <2>28. ASSUME Crash
        PROVE  phase[q] \in {"unused", "placeholder"}
    BY <2>28, <1>1, VariableTypes DEF Crash
  <2>. QED
    BY <2>1, <2>2, <2>3, <2>4, <2>5, <2>6, <2>7, <2>8, <2>9, <2>10, <2>11,
       <2>12, <2>13, <2>14, <2>15, <2>16, <2>17, <2>18, <2>19, <2>20, <2>21,
       <2>22, <2>23, <2>24, <2>26, <2>27, <2>28 DEF Next, ClientSteps,
       RunSteps
<1>. QED
  BY <1>1, BufferSteps DEF FreshBuffer

\* What JoinedFromStart says of a client's queue holds after every step.
LEMMA JoinedStep ==
    ASSUME StreamInv, Next, NEW d \in Clients, NEW q \in Runs,
           at'[d] \in {"deleting", "streaming"}, from'[d] = q, d \in subs'[q]
    PROVE  JoinsUp(queue'[d], buffer'[q])
<1>. DEFINE Goal == JoinsUp(queue'[d], buffer'[q])
<1>. /\ TypeOK /\ ServedBySender /\ BufferIsWindow /\ FreshBuffer /\ JoinedFromStart
     /\ RegisteredIsUsed /\ DeletingHolds
  BY DEF StreamInv, IInv, RegInv
<1>a. ASSUME at[d] \in {"deleting", "streaming"}, from[d] = q, d \in subs[q]
      PROVE  JoinsUp(queue[d], buffer[q])
  BY <1>a, VariableTypes DEF JoinedFromStart
<1>b. /\ buffer[q] \in Seq(Nat) /\ IsWindow(buffer[q])
      /\ queue[d] \in Seq(Int) /\ buffer[q] \in Seq(Int)
  BY VariableTypes, BufferOfInts DEF BufferIsWindow
<1>c. JoinsUp(buffer[q], buffer[q])
  BY <1>b, JoinsReplay
<1>1. ASSUME NEW c \in Clients, NEW k \in Keys,
             NEW op \in {"attaching", "starting", "stopping"}, Call(c, op, k)
      PROVE  Goal
  BY <1>1, <1>a, VariableTypes DEF Call, runVars, diskVars
<1>2. ASSUME NEW c \in Clients, NEW k \in Keys, Attach(c, k)
      PROVE  Goal
  <2>1. PICK cut \in Cuts :
          /\ runs' = Purged(cut)
          /\ runs'[k] # 0
          /\ Subscribe(c, k, runs'[k],
                       buffer[runs'[k]] \o <<REPLAY_END>>
                         \o (IF Done(runs'[k]) THEN <<SENTINEL>> ELSE <<>>))
    BY <1>2 DEF Attach
  <2>2. runs'[k] \in Runs /\ buffer' = buffer
    BY <1>2, <2>1, PurgeKeepsLive DEF Attach
  <2>3. CASE d = c
    <3>1. q = runs'[k]
      BY <2>1, <2>2, <2>3, VariableTypes DEF Subscribe
    <3>2. \/ queue'[d] = buffer[q] \o <<REPLAY_END>> \o <<SENTINEL>>
          \/ queue'[d] = buffer[q] \o <<REPLAY_END>> \o <<>>
      BY <2>1, <2>3, <3>1, VariableTypes DEF Subscribe
    <3>3. \/ queue'[d] = Append(Append(buffer[q], REPLAY_END), SENTINEL)
          \/ queue'[d] = Append(buffer[q], REPLAY_END)
      BY <1>b, <3>2, ReplayMarks
    <3>4. Append(buffer[q], REPLAY_END) \in Seq(Int)
      BY <1>b DEF REPLAY_END
    <3>. QED
      BY <1>b, <1>c, <2>2, <3>3, <3>4, JoinsMark
  <2>4. CASE d # c
    BY <1>a, <2>1, <2>2, <2>4, VariableTypes DEF Subscribe
  <2>. QED
    BY <2>3, <2>4
<1>3. ASSUME NEW c \in Clients, NEW k \in Keys, AttachMisses(c, k)
      PROVE  Goal
  BY <1>3, <1>a, VariableTypes DEF AttachMisses, runVars, diskVars, budgets
<1>4. ASSUME NEW c \in Clients, NEW k \in Keys, Join(c, k)
      PROVE  Goal
  <2>1. PICK cut \in Cuts :
          /\ runs' = Purged(cut)
          /\ runs'[k] # 0
          /\ Subscribe(c, k, runs'[k], buffer[runs'[k]])
    BY <1>4 DEF Join
  <2>2. runs'[k] \in Runs /\ buffer' = buffer
    BY <1>4, <2>1, PurgeKeepsLive DEF Join
  <2>3. CASE d = c
    <3>1. q = runs'[k]
      BY <2>1, <2>2, <2>3, VariableTypes DEF Subscribe
    <3>2. queue'[d] = buffer[q]
      BY <2>1, <2>3, <3>1, VariableTypes DEF Subscribe
    <3>. QED
      BY <1>c, <2>2, <3>2
  <2>4. CASE d # c
    BY <1>a, <2>1, <2>2, <2>4, VariableTypes DEF Subscribe
  <2>. QED
    BY <2>3, <2>4
<1>5. ASSUME NEW c \in Clients, NEW k \in Keys, Start(c, k)
      PROVE  Goal
  <2>1. PICK r \in Runs \ Used :
          /\ subs' = [subs EXCEPT ![r] = {c}]
          /\ from' = [from EXCEPT ![c] = r]
    BY <1>5 DEF Start
  <2>2. /\ at' = [at EXCEPT ![c] = "deleting"] /\ queue' = [queue EXCEPT ![c] = <<>>]
        /\ buffer' = buffer
    BY <1>5 DEF Start
  <2>3. CASE d = c
    <3>1. q = r /\ queue'[d] = <<>>
      BY <2>1, <2>2, <2>3, VariableTypes
    <3>2. buffer[q] = <<>>
      BY <2>1, <3>1 DEF FreshBuffer, Used
    <3>. QED
      BY <1>c, <2>2, <3>1, <3>2
  <2>4. CASE d # c
    <3>1. q # r
      BY <2>1, <2>4, VariableTypes
    <3>2. /\ d \in subs[q] /\ from[d] = q /\ at[d] = at'[d] /\ queue'[d] = queue[d]
      BY <2>1, <2>2, <2>4, <3>1, VariableTypes
    <3>. QED
      BY <1>a, <2>2, <3>2
  <2>. QED
    BY <2>3, <2>4
<1>6. ASSUME NEW c \in Clients, NEW k \in Keys, Stop(c, k)
      PROVE  Goal
  BY <1>6, <1>a, VariableTypes DEF Stop, Ends, diskVars
<1>7. ASSUME NEW c \in Clients, ReadReplay(c)
      PROVE  Goal
  BY <1>7, <1>a, VariableTypes DEF ReadReplay, runVars, diskVars, lockVars,
     budgets
<1>8. ASSUME NEW c \in Clients, ReadNothing(c)
      PROVE  Goal
  BY <1>8, <1>a, VariableTypes DEF ReadNothing, Ends, runVars, diskVars,
     lockVars, budgets
<1>9. ASSUME NEW c \in Clients, ReadExpired(c)
      PROVE  Goal
  BY <1>9, <1>a, VariableTypes DEF ReadExpired, runVars, diskVars, lockVars,
     budgets
<1>10. ASSUME NEW c \in Clients, UnlinkExpired(c)
      PROVE  Goal
  BY <1>10, <1>a, VariableTypes DEF UnlinkExpired, Ends, runVars, lockVars,
     budgets
<1>11. ASSUME NEW c \in Clients, DeleteReplay(c)
      PROVE  Goal
  <2>1. /\ subs' = subs /\ from' = from /\ queue' = queue /\ buffer' = buffer
        /\ at' = [at EXCEPT ![c] = "streaming"] /\ at[c] = "deleting"
    BY <1>11 DEF DeleteReplay
  <2>. QED
    BY <1>a, <2>1, VariableTypes
<1>12. ASSUME NEW c \in Clients, DeleteFails(c)
      PROVE  Goal
  BY <1>12, <1>a, VariableTypes DEF DeleteFails, Ends, diskVars
<1>13. ASSUME NEW c \in Clients, Leave(c)
      PROVE  Goal
  BY <1>13, <1>a, VariableTypes DEF Leave, runVars, diskVars, budgets
<1>14. ASSUME NEW c \in Clients, Detach(c)
      PROVE  Goal
  <2>1. /\ buffer' = buffer
        /\ subs' = IF runs[target[c]] = 0 THEN subs
                   ELSE [subs EXCEPT ![runs[target[c]]] = @ \ {c}]
        /\ Ends(c)
    BY <1>14 DEF Detach
  <2>2. d # c
    BY <2>1, VariableTypes DEF Ends
  <2>3. /\ at'[d] = at[d] /\ from'[d] = from[d] /\ queue'[d] = queue[d]
    BY <2>1, <2>2, VariableTypes DEF Ends
  <2>4. d \in subs[q]
    BY <2>1, VariableTypes
  <2>. QED
    BY <1>a, <2>1, <2>3, <2>4
<1>15. ASSUME NEW c \in Clients, StopReturns(c)
      PROVE  Goal
  BY <1>15, <1>a, VariableTypes DEF StopReturns, Ends, runVars, diskVars,
     lockVars, budgets
<1>16. ASSUME NEW r \in Runs, Block(r)
      PROVE  Goal
  BY <1>16, <1>a, VariableTypes DEF Block, clientVars, diskVars, budgets
<1>17. ASSUME NEW r \in Runs, Enter(r)
      PROVE  Goal
  BY <1>17, <1>a, VariableTypes DEF Enter, clientVars, diskVars, budgets
<1>18. ASSUME NEW r \in Runs, Emit(r)
      PROVE  Goal
  <2> DEFINE e == LastEvent(r) + 1
  <2>1. /\ subs' = subs /\ at' = at /\ from' = from /\ CanSend(r)
        /\ queue' = Broadcast(r, e)
        /\ buffer' = [buffer EXCEPT ![r] = Trim(Append(@, e))]
    BY <1>18 DEF Emit, CanSend, Unfinalised, Producing
  <2>2. e \in Nat /\ e = Newest(buffer[r]) + 1
    BY LastEventNat DEF LastEvent, Newest
  <2>. HIDE DEF e
  <2>3. JoinsUp(queue[d], buffer[q])
    BY <1>a, <2>1
  <2>4. CASE q = r
    <3>1. queue'[d] = Append(queue[d], e)
      BY <2>1, <2>4, VariableTypes DEF Broadcast
    <3>2. buffer'[q] = Trim(Append(buffer[q], e))
      BY <2>1, <2>4, VariableTypes
    <3>. QED
      BY <1>b, <2>2, <2>3, <2>4, <3>1, <3>2, JoinsNextEvent
  <2>5. CASE q # r
    <3>1. d \notin subs[r]
      BY <2>1, <2>5 DEF ServedBySender
    <3>2. queue'[d] = queue[d] /\ buffer'[q] = buffer[q]
      BY <2>1, <2>5, <3>1, VariableTypes DEF Broadcast
    <3>. QED
      BY <2>3, <3>2
  <2>. QED
    BY <2>4, <2>5
<1>19. ASSUME NEW r \in Runs, StreamEnds(r)
      PROVE  Goal
  BY <1>19, <1>a, VariableTypes DEF StreamEnds, clientVars, diskVars, budgets
<1>20. ASSUME NEW r \in Runs, StreamRaises(r)
      PROVE  Goal
  BY <1>20, <1>a, VariableTypes DEF StreamRaises, clientVars, diskVars
<1>21. ASSUME NEW r \in Runs, ReportError(r)
      PROVE  Goal
  <2> DEFINE e == LastEvent(r) + 1
  <2>1. /\ subs' = subs /\ at' = at /\ from' = from /\ CanSend(r)
        /\ queue' = Broadcast(r, e)
        /\ buffer' = [buffer EXCEPT ![r] = Append(@, e)]
    BY <1>21 DEF ReportError, CanSend, Unfinalised, Producing
  <2>2. e \in Nat /\ e = Newest(buffer[r]) + 1
    BY LastEventNat DEF LastEvent, Newest
  <2>. HIDE DEF e
  <2>3. JoinsUp(queue[d], buffer[q])
    BY <1>a, <2>1
  <2>4. CASE q = r
    <3>1. queue'[d] = Append(queue[d], e)
      BY <2>1, <2>4, VariableTypes DEF Broadcast
    <3>2. buffer'[q] = Append(buffer[q], e)
      BY <2>1, <2>4, VariableTypes
    <3>. QED
      BY <1>b, <2>2, <2>3, <2>4, <3>1, <3>2, JoinsNextEvent
  <2>5. CASE q # r
    <3>1. d \notin subs[r]
      BY <2>1, <2>5 DEF ServedBySender
    <3>2. queue'[d] = queue[d] /\ buffer'[q] = buffer[q]
      BY <2>1, <2>5, <3>1, VariableTypes DEF Broadcast
    <3>. QED
      BY <2>3, <3>2
  <2>. QED
    BY <2>4, <2>5
<1>22. ASSUME NEW r \in Runs, Finalise(r)
      PROVE  Goal
  <2>1. /\ subs' = subs /\ at' = at /\ from' = from /\ buffer' = buffer
        /\ queue' = Broadcast(r, SENTINEL)
    BY <1>22 DEF Finalise
  <2>2. JoinsUp(queue[d], buffer[q])
    BY <1>a, <2>1
  <2>3. queue'[d] \in {queue[d], Append(queue[d], SENTINEL)}
    BY <2>1, VariableTypes DEF Broadcast
  <2>. QED
    BY <1>b, <2>1, <2>2, <2>3, JoinsMark
<1>23. ASSUME NEW r \in Runs, RaiseCancelled(r) \/ GiveUpWrite(r)
      PROVE  Goal
  BY <1>23, <1>a, VariableTypes, CancelSteps DEF CancelMoves
<1>24. ASSUME NEW w \in writes, WriteLands(w) \/ WriteFails(w)
      PROVE  Goal
  BY <1>24, <1>a, VariableTypes, WriteSteps DEF WriteMoves
<1>26. ASSUME NEW k \in Keys, PruneReplay(k)
      PROVE  Goal
  BY <1>26, <1>a, VariableTypes DEF PruneReplay, runVars, clientVars, lockVars,
     budgets
<1>27. ASSUME GetStatus
      PROVE  Goal
  BY <1>27, <1>a, VariableTypes DEF GetStatus, runVars, clientVars, diskVars,
     lockVars, budgets
<1>28. ASSUME Crash
      PROVE  Goal
  BY <1>28, <1>a, VariableTypes DEF Crash
<1>. QED
  BY <1>1, <1>2, <1>3, <1>4, <1>5, <1>6, <1>7, <1>8, <1>9, <1>10, <1>11,
     <1>12, <1>13, <1>14, <1>15, <1>16, <1>17, <1>18, <1>19, <1>20, <1>21,
     <1>22, <1>23, <1>24, <1>26, <1>27, <1>28 DEF Next, ClientSteps,
     RunSteps

\* A queue has its end at most once, and last.
LEMMA OneEndStep ==
    ASSUME StreamInv, Next, NEW d \in Clients
    PROVE  OneEnd(queue'[d])
<1>. DEFINE Goal == OneEnd(queue'[d])
<1>. TypeOK /\ ServedBySender
  BY DEF StreamInv, IInv
<1>a. OneEnd(queue[d]) /\ queue[d] \in Seq(Int)
  BY VariableTypes DEF StreamInv, NothingAfterSentinel, OneEnd
<1>b. OneEnd(<<>>)
  BY DEF OneEnd
<1>c. ASSUME NEW b \in Seq(Nat)
      PROVE  /\ OneEnd(b) /\ OneEnd(Append(b, REPLAY_END))
             /\ OneEnd(Append(Append(b, REPLAY_END), SENTINEL))
  <2>1. b \in Seq(Int) /\ NoEnd(b)
    BY SeqMonotonic, Nat \subseteq Int DEF NoEnd, SENTINEL
  <2>2. /\ REPLAY_END \in Int /\ SENTINEL \in Int /\ REPLAY_END # SENTINEL
        /\ Append(b, REPLAY_END) \in Seq(Int)
    BY <2>1 DEF REPLAY_END, SENTINEL
  <2>3. NoEnd(Append(b, REPLAY_END)) /\ OneEnd(Append(b, REPLAY_END))
    BY <2>1, <2>2, EndIsLast
  <2>4. OneEnd(b)
    BY <2>1 DEF OneEnd, NoEnd
  <2>. QED
    BY <2>2, <2>3, <2>4, EndIsLast
<1>1. ASSUME NEW c \in Clients, NEW k \in Keys,
             NEW op \in {"attaching", "starting", "stopping"}, Call(c, op, k)
      PROVE  Goal
  BY <1>1, <1>a, <1>b, VariableTypes DEF Call, runVars, diskVars
<1>2. ASSUME NEW c \in Clients, NEW k \in Keys, Attach(c, k)
      PROVE  Goal
  <2>1. PICK cut \in Cuts :
          /\ runs' = Purged(cut)
          /\ runs'[k] # 0
          /\ Subscribe(c, k, runs'[k],
                       buffer[runs'[k]] \o <<REPLAY_END>>
                         \o (IF Done(runs'[k]) THEN <<SENTINEL>> ELSE <<>>))
    BY <1>2 DEF Attach
  <2> DEFINE b == buffer[runs'[k]]
  <2>2. b \in Seq(Nat)
    BY <2>1, PurgeKeepsLive, VariableTypes
  <2>3. \/ queue'[d] = queue[d]
        \/ queue'[d] = b \o <<REPLAY_END>> \o <<SENTINEL>>
        \/ queue'[d] = b \o <<REPLAY_END>> \o <<>>
    BY <2>1, VariableTypes DEF Subscribe
  <2>. HIDE DEF b
  <2>. QED
    BY <1>a, <1>c, <2>2, <2>3, ReplayMarks
<1>3. ASSUME NEW c \in Clients, NEW k \in Keys, AttachMisses(c, k)
      PROVE  Goal
  BY <1>3, <1>a, <1>b, VariableTypes DEF AttachMisses, runVars, diskVars,
     budgets
<1>4. ASSUME NEW c \in Clients, NEW k \in Keys, Join(c, k)
      PROVE  Goal
  <2>1. PICK cut \in Cuts :
          /\ runs' = Purged(cut)
          /\ runs'[k] # 0
          /\ Subscribe(c, k, runs'[k], buffer[runs'[k]])
    BY <1>4 DEF Join
  <2>2. buffer[runs'[k]] \in Seq(Nat)
    BY <2>1, PurgeKeepsLive, VariableTypes
  <2>3. queue'[d] \in {queue[d], buffer[runs'[k]]}
    BY <2>1, VariableTypes DEF Subscribe
  <2>. QED
    BY <1>a, <1>c, <2>2, <2>3
<1>5. ASSUME NEW c \in Clients, NEW k \in Keys, Start(c, k)
      PROVE  Goal
  BY <1>5, <1>a, <1>b, VariableTypes DEF Start, diskVars, budgets
<1>6. ASSUME NEW c \in Clients, NEW k \in Keys, Stop(c, k)
      PROVE  Goal
  BY <1>6, <1>a, <1>b, VariableTypes DEF Stop, Ends, diskVars
<1>7. ASSUME NEW c \in Clients, ReadReplay(c)
      PROVE  Goal
  <2> DEFINE b == disk[target[c]].events
  <2>1. b \in Seq(Nat)
    BY <1>7 DEF ReadReplay, TypeOK
  <2>2. queue'[d] \in {queue[d], b \o <<REPLAY_END, SENTINEL>>}
    BY <1>7, VariableTypes DEF ReadReplay
  <2>. HIDE DEF b
  <2>. QED
    BY <1>a, <1>c, <2>1, <2>2, ReplayMarks
<1>8. ASSUME NEW c \in Clients, ReadNothing(c)
      PROVE  Goal
  BY <1>8, <1>a, <1>b, VariableTypes DEF ReadNothing, Ends, runVars, diskVars,
     lockVars, budgets
<1>9. ASSUME NEW c \in Clients, ReadExpired(c)
      PROVE  Goal
  BY <1>9, <1>a, <1>b, VariableTypes DEF ReadExpired, runVars, diskVars,
     lockVars, budgets
<1>10. ASSUME NEW c \in Clients, UnlinkExpired(c)
      PROVE  Goal
  BY <1>10, <1>a, <1>b, VariableTypes DEF UnlinkExpired, Ends, runVars,
     lockVars, budgets
<1>11. ASSUME NEW c \in Clients, DeleteReplay(c)
      PROVE  Goal
  BY <1>11, <1>a, <1>b, VariableTypes DEF DeleteReplay, budgets
<1>12. ASSUME NEW c \in Clients, DeleteFails(c)
      PROVE  Goal
  BY <1>12, <1>a, <1>b, VariableTypes DEF DeleteFails, Ends, diskVars
<1>13. ASSUME NEW c \in Clients, Leave(c)
      PROVE  Goal
  BY <1>13, <1>a, <1>b, VariableTypes DEF Leave, runVars, diskVars, budgets
<1>14. ASSUME NEW c \in Clients, Detach(c)
      PROVE  Goal
  BY <1>14, <1>a, <1>b, VariableTypes DEF Detach, Ends, diskVars, budgets
<1>15. ASSUME NEW c \in Clients, StopReturns(c)
      PROVE  Goal
  BY <1>15, <1>a, <1>b, VariableTypes DEF StopReturns, Ends, runVars, diskVars,
     lockVars, budgets
<1>16. ASSUME NEW r \in Runs, Block(r)
      PROVE  Goal
  BY <1>16, <1>a, <1>b, VariableTypes DEF Block, clientVars, diskVars, budgets
<1>17. ASSUME NEW r \in Runs, Enter(r)
      PROVE  Goal
  BY <1>17, <1>a, <1>b, VariableTypes DEF Enter, clientVars, diskVars, budgets
<1>18. ASSUME NEW r \in Runs, Emit(r)
      PROVE  Goal
  <2> DEFINE e == LastEvent(r) + 1
  <2>1. queue' = Broadcast(r, e) /\ CanSend(r)
    BY <1>18 DEF Emit, CanSend, Unfinalised, Producing
  <2>2. e \in Int
    BY LastEventNat DEF SENTINEL
  <2>. HIDE DEF e
  <2>3. CASE d \in subs[r]
    <3>1. NoEnd(queue[d]) /\ queue'[d] = Append(queue[d], e)
      BY <2>1, <2>3, VariableTypes DEF Broadcast, ServedBySender, NoEnd
    <3>. QED
      BY <1>a, <2>2, <3>1, EndIsLast
  <2>4. CASE d \notin subs[r]
    BY <1>a, <2>1, <2>4, VariableTypes DEF Broadcast
  <2>. QED
    BY <2>3, <2>4
<1>19. ASSUME NEW r \in Runs, StreamEnds(r)
      PROVE  Goal
  BY <1>19, <1>a, <1>b, VariableTypes DEF StreamEnds, clientVars, diskVars,
     budgets
<1>20. ASSUME NEW r \in Runs, StreamRaises(r)
      PROVE  Goal
  BY <1>20, <1>a, <1>b, VariableTypes DEF StreamRaises, clientVars, diskVars
<1>21. ASSUME NEW r \in Runs, ReportError(r)
      PROVE  Goal
  <2> DEFINE e == LastEvent(r) + 1
  <2>1. queue' = Broadcast(r, e) /\ CanSend(r)
    BY <1>21 DEF ReportError, CanSend, Unfinalised, Producing
  <2>2. e \in Int
    BY LastEventNat DEF SENTINEL
  <2>. HIDE DEF e
  <2>3. CASE d \in subs[r]
    <3>1. NoEnd(queue[d]) /\ queue'[d] = Append(queue[d], e)
      BY <2>1, <2>3, VariableTypes DEF Broadcast, ServedBySender, NoEnd
    <3>. QED
      BY <1>a, <2>2, <3>1, EndIsLast
  <2>4. CASE d \notin subs[r]
    BY <1>a, <2>1, <2>4, VariableTypes DEF Broadcast
  <2>. QED
    BY <2>3, <2>4
<1>22. ASSUME NEW r \in Runs, Finalise(r)
      PROVE  Goal
  <2> DEFINE e == SENTINEL
  <2>1. queue' = Broadcast(r, e) /\ CanSend(r)
    BY <1>22 DEF Finalise, CanSend, Unfinalised, Producing
  <2>2. e \in Int
    BY LastEventNat DEF SENTINEL
  <2>. HIDE DEF e
  <2>3. CASE d \in subs[r]
    <3>1. NoEnd(queue[d]) /\ queue'[d] = Append(queue[d], e)
      BY <2>1, <2>3, VariableTypes DEF Broadcast, ServedBySender, NoEnd
    <3>. QED
      BY <1>a, <2>2, <3>1, EndIsLast
  <2>4. CASE d \notin subs[r]
    BY <1>a, <2>1, <2>4, VariableTypes DEF Broadcast
  <2>. QED
    BY <2>3, <2>4
<1>23. ASSUME NEW r \in Runs, RaiseCancelled(r) \/ GiveUpWrite(r)
      PROVE  Goal
  BY <1>23, <1>a, <1>b, VariableTypes, CancelSteps DEF CancelMoves
<1>24. ASSUME NEW w \in writes, WriteLands(w) \/ WriteFails(w)
      PROVE  Goal
  BY <1>24, <1>a, <1>b, VariableTypes, WriteSteps DEF WriteMoves
<1>26. ASSUME NEW k \in Keys, PruneReplay(k)
      PROVE  Goal
  BY <1>26, <1>a, <1>b, VariableTypes DEF PruneReplay, runVars, clientVars,
     lockVars, budgets
<1>27. ASSUME GetStatus
      PROVE  Goal
  BY <1>27, <1>a, <1>b, VariableTypes DEF GetStatus, runVars, clientVars,
     diskVars, lockVars, budgets
<1>28. ASSUME Crash
      PROVE  Goal
  BY <1>28, <1>a, <1>b, VariableTypes DEF Crash
<1>. QED
  BY <1>1, <1>2, <1>3, <1>4, <1>5, <1>6, <1>7, <1>8, <1>9, <1>10, <1>11,
     <1>12, <1>13, <1>14, <1>15, <1>16, <1>17, <1>18, <1>19, <1>20, <1>21,
     <1>22, <1>23, <1>24, <1>26, <1>27, <1>28 DEF Next, ClientSteps,
     RunSteps

-----------------------------------------------------------------------------
(* The stream invariant *)

\* It holds initially: nobody streams.
LEMMA InitStreamInv == Init => StreamInv
<1>. SUFFICES ASSUME Init PROVE StreamInv
  OBVIOUS
<1>1. ServedBySender
  BY DEF Init, ServedBySender, CanSend, Unfinalised, Producing
<1>2. FreshBuffer /\ BufferIsWindow
  BY DEF Init, FreshBuffer, BufferIsWindow, IsWindow, Newest
<1>3. JoinedFromStart /\ NothingAfterSentinel
  BY DEF Init, JoinedFromStart, NothingAfterSentinel
<1>. QED
  BY InitIInv, <1>1, <1>2, <1>3 DEF StreamInv

\* Every step keeps it.
LEMMA StreamInvStep ==
    ASSUME StreamInv, [Next]_vars
    PROVE  StreamInv'
<1>1. CASE Next
  <2>1. IInv' /\ TypeOK /\ TypeOK' /\ DeletingHolds
    BY <1>1, TypeStep, RegistryStep DEF StreamInv, IInv, RegInv
  <2>2. ServedBySender'
    BY <1>1, ServedBySenderStep DEF ServedBySender
  <2>3. FreshBuffer' /\ BufferIsWindow'
    BY <1>1, <2>1, FreshBufferStep, BufferIsWindowStep DEF StreamInv
  <2>4. JoinedFromStart'
    <3>1. ASSUME NEW c \in Clients, at'[c] \in {"deleting", "streaming"},
                 from'[c] # 0, c \in subs'[from'[c]]
          PROVE  JoinsUp(queue'[c], buffer'[from'[c]])
      <4>1. from'[c] \in Runs
        BY <2>1, <3>1 DEF TypeOK
      <4>. QED
        BY <1>1, <3>1, <4>1, JoinedStep
    <3>. QED
      BY <3>1 DEF JoinedFromStart
  <2>5. NothingAfterSentinel'
    BY <1>1, OneEndStep DEF NothingAfterSentinel, OneEnd
  <2>. QED
    BY <2>1, <2>2, <2>3, <2>4, <2>5 DEF StreamInv
<1>2. CASE UNCHANGED vars
  <2>1. IInv'
    BY <1>2, StutterIInv DEF StreamInv
  <2>2. ServedBySender' /\ FreshBuffer' /\ BufferIsWindow'
    BY <1>2 DEF StreamInv, vars, ServedBySender, FreshBuffer, BufferIsWindow, CanSend,
       Unfinalised
  <2>3. JoinedFromStart' /\ NothingAfterSentinel'
    BY <1>2 DEF StreamInv, vars, JoinedFromStart, NothingAfterSentinel
  <2>. QED
    BY <2>1, <2>2, <2>3 DEF StreamInv
<1>. QED
  BY <1>1, <1>2

\* The stream invariant holds in every reachable state.
THEOREM StreamInvariance == Spec => []StreamInv
<1>1. StreamInv /\ [Next]_vars => StreamInv'
  BY StreamInvStep
<1>. QED
  BY InitStreamInv, <1>1, PTL DEF Spec

\* Whoever streams from a run, from its start, by joining it or by reconnecting
\* to it, has been sent consecutive events in order up to the newest one, the
\* whole replay buffer among them: nothing is lost or repeated where the replay
\* and the live events meet, however the steps of clients and producers mix.
THEOREM StreamsAreContiguous == Spec => []Contiguous
<1>1. StreamInv => Contiguous
  BY DEF StreamInv, JoinedFromStart, JoinsUp, EventsIn, Newest, Contiguous, Sent,
     LastEvent
<1>. QED
  BY StreamInvariance, <1>1, PTL

\* Nothing ever follows the sentinel on a client's queue.
THEOREM StreamsEndOnce == Spec => []NothingAfterSentinel
<1>1. StreamInv => NothingAfterSentinel
  BY DEF StreamInv
<1>. QED
  BY StreamInvariance, <1>1, PTL
-----------------------------------------------------------------------------
(* Replay files *)

\* A run once used stays used, and the next one is the first unused one.
LEMMA UsedSteps ==
    ASSUME TypeOK, DeletingHolds, Next, NEW q \in Runs
    PROVE  /\ phase[q] # "unused" => phase'[q] # "unused" /\ key'[q] = key[q]
           /\ phase[q] = "unused" /\ phase'[q] # "unused"
                => \A p \in Runs : p < q => phase[p] # "unused"
<1>. DEFINE Goal == /\ phase[q] # "unused" => phase'[q] # "unused" /\ key'[q] = key[q]
                    /\ phase[q] = "unused" /\ phase'[q] # "unused"
                         => \A p \in Runs : p < q => phase[p] # "unused"
<1>1. ASSUME NEW c \in Clients, NEW k \in Keys,
             NEW op \in {"attaching", "starting", "stopping"}, Call(c, op, k)
      PROVE  Goal
  BY <1>1, VariableTypes DEF Call, runVars
<1>2. ASSUME NEW c \in Clients, NEW k \in Keys, Attach(c, k)
      PROVE  Goal
  BY <1>2, VariableTypes DEF Attach
<1>3. ASSUME NEW c \in Clients, NEW k \in Keys, AttachMisses(c, k)
      PROVE  Goal
  BY <1>3, VariableTypes DEF AttachMisses, runVars
<1>4. ASSUME NEW c \in Clients, NEW k \in Keys, Join(c, k)
      PROVE  Goal
  BY <1>4, VariableTypes DEF Join
<1>5. ASSUME NEW c \in Clients, NEW k \in Keys, Start(c, k)
      PROVE  Goal
  <2>1. PICK r \in Runs \ Used :
          /\ \A p \in Runs \ Used : r <= p
          /\ key' = [key EXCEPT ![r] = k]
          /\ phase' = [phase EXCEPT ![r] = "placeholder"]
    BY <1>5 DEF Start
  <2>2. CASE q = r
    <3>1. \A p \in Runs : p < q => phase[p] # "unused"
      BY <2>1, <2>2 DEF Used, Runs
    <3>. QED
      BY <2>1, <2>2, <3>1, VariableTypes DEF Used
  <2>3. CASE q # r
    BY <2>1, <2>3, VariableTypes
  <2>. QED
    BY <2>2, <2>3
<1>6. ASSUME NEW c \in Clients, NEW k \in Keys, Stop(c, k)
      PROVE  Goal
  BY <1>6, VariableTypes DEF Stop
<1>7. ASSUME NEW c \in Clients, ReadReplay(c)
      PROVE  Goal
  BY <1>7, VariableTypes DEF ReadReplay, runVars
<1>8. ASSUME NEW c \in Clients, ReadNothing(c)
      PROVE  Goal
  BY <1>8, VariableTypes DEF ReadNothing, runVars
<1>9. ASSUME NEW c \in Clients, ReadExpired(c)
      PROVE  Goal
  BY <1>9, VariableTypes DEF ReadExpired, runVars
<1>10. ASSUME NEW c \in Clients, UnlinkExpired(c)
      PROVE  Goal
  BY <1>10, VariableTypes DEF UnlinkExpired, runVars
<1>11. ASSUME NEW c \in Clients, DeleteReplay(c)
      PROVE  Goal
  <2>1. /\ phase' = [phase EXCEPT ![from[c]] = "created"]
        /\ phase[from[c]] = "placeholder" /\ key' = key
    BY <1>11 DEF DeleteReplay, DeletingHolds
  <2>. QED
    BY <2>1, VariableTypes
<1>12. ASSUME NEW c \in Clients, DeleteFails(c)
      PROVE  Goal
  <2>1. /\ phase' = [phase EXCEPT ![from[c]] = "stuck"]
        /\ phase[from[c]] = "placeholder" /\ key' = key
    BY <1>12 DEF DeleteFails, DeletingHolds
  <2>. QED
    BY <2>1, VariableTypes
<1>13. ASSUME NEW c \in Clients, Leave(c)
      PROVE  Goal
  BY <1>13, VariableTypes DEF Leave, runVars
<1>14. ASSUME NEW c \in Clients, Detach(c)
      PROVE  Goal
  BY <1>14, VariableTypes DEF Detach
<1>15. ASSUME NEW c \in Clients, StopReturns(c)
      PROVE  Goal
  BY <1>15, VariableTypes DEF StopReturns, runVars
<1>16. ASSUME NEW r \in Runs, Block(r)
      PROVE  Goal
  BY <1>16, VariableTypes DEF Block
<1>17. ASSUME NEW r \in Runs, Enter(r)
      PROVE  Goal
  BY <1>17, VariableTypes DEF Enter
<1>18. ASSUME NEW r \in Runs, Emit(r)
      PROVE  Goal
  BY <1>18, VariableTypes DEF Emit
<1>19. ASSUME NEW r \in Runs, StreamEnds(r)
      PROVE  Goal
  BY <1>19, VariableTypes DEF StreamEnds
<1>20. ASSUME NEW r \in Runs, StreamRaises(r)
      PROVE  Goal
  BY <1>20, VariableTypes DEF StreamRaises
<1>21. ASSUME NEW r \in Runs, ReportError(r)
      PROVE  Goal
  BY <1>21, VariableTypes DEF ReportError
<1>22. ASSUME NEW r \in Runs, Finalise(r)
      PROVE  Goal
  BY <1>22, VariableTypes DEF Finalise
<1>23. ASSUME NEW r \in Runs, RaiseCancelled(r) \/ GiveUpWrite(r)
      PROVE  Goal
  BY <1>23, CancelledPhases DEF Producing
<1>24. ASSUME NEW w \in writes, WriteLands(w) \/ WriteFails(w)
      PROVE  Goal
  BY <1>24, WrittenPhases
<1>26. ASSUME NEW k \in Keys, PruneReplay(k)
      PROVE  Goal
  BY <1>26, VariableTypes DEF PruneReplay, runVars
<1>27. ASSUME GetStatus
      PROVE  Goal
  BY <1>27, VariableTypes DEF GetStatus, runVars
<1>28. ASSUME Crash
      PROVE  Goal
  BY <1>28, VariableTypes DEF Crash
<1>. QED
  BY <1>1, <1>2, <1>3, <1>4, <1>5, <1>6, <1>7, <1>8, <1>9, <1>10, <1>11,
     <1>12, <1>13, <1>14, <1>15, <1>16, <1>17, <1>18, <1>19, <1>20, <1>21,
     <1>22, <1>23, <1>24, <1>26, <1>27, <1>28 DEF Next, ClientSteps,
     RunSteps

\* The used runs stay a prefix of the numbers.
LEMMA UsedIsPrefixStep ==
    ASSUME TypeOK, DeletingHolds, UsedIsPrefix, Next
    PROVE  UsedIsPrefix'
<1>1. ASSUME NEW r \in Runs, phase'[r] # "unused", NEW q \in Runs, q <= r
      PROVE  phase'[q] # "unused"
  <2>1. CASE phase[r] # "unused"
    BY <1>1, <2>1, UsedSteps DEF UsedIsPrefix, Used
  <2>2. CASE phase[r] = "unused"
    BY <1>1, <2>2, UsedSteps DEF Runs
  <2>. QED
    BY <2>1, <2>2
<1>. QED
  BY <1>1 DEF UsedIsPrefix, Used

\* The registered run stays the newest one of its chat.
LEMMA NewestRegisteredStep ==
    ASSUME TypeOK, DeletingHolds, UsedIsPrefix, NewestRegistered, Next,
           NEW q \in Runs, phase'[q] # "unused", runs'[key'[q]] # 0
    PROVE  q <= runs'[key'[q]]
<1>. DEFINE Goal == q <= runs'[key'[q]]
<1>a. phase[q] # "unused" => key'[q] = key[q] /\ (runs[key[q]] # 0 => q <= runs[key[q]])
  BY UsedSteps DEF NewestRegistered, Used
<1>1. ASSUME NEW c \in Clients, NEW k \in Keys,
             NEW op \in {"attaching", "starting", "stopping"}, Call(c, op, k)
      PROVE  Goal
  BY <1>1, <1>a, VariableTypes DEF Call, runVars
<1>2. ASSUME NEW c \in Clients, NEW k \in Keys, Attach(c, k)
      PROVE  Goal
  BY <1>2, <1>a, VariableTypes, PurgeKeepsLive DEF Attach
<1>3. ASSUME NEW c \in Clients, NEW k \in Keys, AttachMisses(c, k)
      PROVE  Goal
  BY <1>3, <1>a, VariableTypes, PurgeKeepsLive DEF AttachMisses, runVars
<1>4. ASSUME NEW c \in Clients, NEW k \in Keys, Join(c, k)
      PROVE  Goal
  BY <1>4, <1>a, VariableTypes, PurgeKeepsLive DEF Join
<1>5. ASSUME NEW c \in Clients, NEW k \in Keys, Start(c, k)
      PROVE  Goal
  <2>1. PICK r \in Runs \ Used :
          /\ \E cut \in Cuts : runs' = [Purged(cut) EXCEPT ![k] = r]
          /\ key' = [key EXCEPT ![r] = k]
          /\ phase' = [phase EXCEPT ![r] = "placeholder"]
    BY <1>5 DEF Start
  <2>2. CASE q = r
    BY <2>1, <2>2, VariableTypes, PurgeKeepsLive DEF Runs
  <2>3. CASE q # r
    <3>1. phase[q] # "unused" /\ key'[q] = key[q]
      BY <2>1, <2>3, VariableTypes
    <3>2. CASE key[q] = k
      <4>1. runs'[key'[q]] = r
        BY <2>1, <3>1, <3>2, PurgeKeepsLive
      <4>2. ~(r <= q)
        BY <2>1, <3>1 DEF UsedIsPrefix, Used
      <4>. QED
        BY <2>1, <4>1, <4>2 DEF Runs
    <3>3. CASE key[q] # k
      <4>1. runs'[key[q]] \in {0, runs[key[q]]}
        BY <2>1, <3>3, VariableTypes, PurgeKeepsLive
      <4>. QED
        BY <1>a, <3>1, <4>1
    <3>. QED
      BY <3>2, <3>3
  <2>. QED
    BY <2>2, <2>3
<1>6. ASSUME NEW c \in Clients, NEW k \in Keys, Stop(c, k)
      PROVE  Goal
  BY <1>6, <1>a, VariableTypes DEF Stop
<1>7. ASSUME NEW c \in Clients, ReadReplay(c)
      PROVE  Goal
  BY <1>7, <1>a, VariableTypes DEF ReadReplay, runVars
<1>8. ASSUME NEW c \in Clients, ReadNothing(c)
      PROVE  Goal
  BY <1>8, <1>a, VariableTypes DEF ReadNothing, runVars
<1>9. ASSUME NEW c \in Clients, ReadExpired(c)
      PROVE  Goal
  BY <1>9, <1>a, VariableTypes DEF ReadExpired, runVars
<1>10. ASSUME NEW c \in Clients, UnlinkExpired(c)
      PROVE  Goal
  BY <1>10, <1>a, VariableTypes DEF UnlinkExpired, runVars
<1>11. ASSUME NEW c \in Clients, DeleteReplay(c)
      PROVE  Goal
  <2>1. \A p \in Runs : phase[p] = "unused" => phase'[p] = "unused"
    BY <1>11, VariableTypes DEF DeleteReplay, DeletingHolds, Awaited
  <2>2. runs' = runs
    BY <1>11 DEF DeleteReplay
  <2>. QED
    BY <1>a, <2>1, <2>2
<1>12. ASSUME NEW c \in Clients, DeleteFails(c)
      PROVE  Goal
  <2>1. \A p \in Runs : phase[p] = "unused" => phase'[p] = "unused"
    BY <1>12, VariableTypes DEF DeleteFails, DeletingHolds, Awaited
  <2>2. runs' = runs
    BY <1>12 DEF DeleteFails
  <2>. QED
    BY <1>a, <2>1, <2>2
<1>13. ASSUME NEW c \in Clients, Leave(c)
      PROVE  Goal
  BY <1>13, <1>a, VariableTypes DEF Leave, runVars
<1>14. ASSUME NEW c \in Clients, Detach(c)
      PROVE  Goal
  BY <1>14, <1>a, VariableTypes DEF Detach
<1>15. ASSUME NEW c \in Clients, StopReturns(c)
      PROVE  Goal
  BY <1>15, <1>a, VariableTypes DEF StopReturns, runVars
<1>16. ASSUME NEW r \in Runs, Block(r)
      PROVE  Goal
  BY <1>16, <1>a, VariableTypes DEF Block
<1>17. ASSUME NEW r \in Runs, Enter(r)
      PROVE  Goal
  BY <1>17, <1>a, VariableTypes DEF Enter
<1>18. ASSUME NEW r \in Runs, Emit(r)
      PROVE  Goal
  BY <1>18, <1>a, VariableTypes DEF Emit
<1>19. ASSUME NEW r \in Runs, StreamEnds(r)
      PROVE  Goal
  BY <1>19, <1>a, VariableTypes DEF StreamEnds
<1>20. ASSUME NEW r \in Runs, StreamRaises(r)
      PROVE  Goal
  BY <1>20, <1>a, VariableTypes DEF StreamRaises
<1>21. ASSUME NEW r \in Runs, ReportError(r)
      PROVE  Goal
  BY <1>21, <1>a, VariableTypes DEF ReportError
<1>22. ASSUME NEW r \in Runs, Finalise(r)
      PROVE  Goal
  <2>1. \A p \in Runs : phase[p] = "unused" => phase'[p] = "unused"
    BY <1>22, VariableTypes DEF Finalise
  <2>2. runs'[key[q]] \in {0, runs[key[q]]}
    BY <1>22, VariableTypes, PurgeKeepsLive DEF Finalise
  <2>. QED
    BY <1>a, <2>1, <2>2
<1>23. ASSUME NEW r \in Runs, RaiseCancelled(r) \/ GiveUpWrite(r)
      PROVE  Goal
  BY <1>23, <1>a, CancelledPhases DEF Producing
<1>24. ASSUME NEW w \in writes, WriteLands(w) \/ WriteFails(w)
      PROVE  Goal
  BY <1>24, <1>a, WrittenPhases
<1>26. ASSUME NEW k \in Keys, PruneReplay(k)
      PROVE  Goal
  BY <1>26, <1>a, VariableTypes DEF PruneReplay, runVars
<1>27. ASSUME GetStatus
      PROVE  Goal
  BY <1>27, <1>a, VariableTypes, PurgeKeepsLive DEF GetStatus, runVars
<1>28. ASSUME Crash
      PROVE  Goal
  BY <1>28, <1>a, VariableTypes DEF Crash
<1>. QED
  BY <1>1, <1>2, <1>3, <1>4, <1>5, <1>6, <1>7, <1>8, <1>9, <1>10, <1>11,
     <1>12, <1>13, <1>14, <1>15, <1>16, <1>17, <1>18, <1>19, <1>20, <1>21,
     <1>22, <1>23, <1>24, <1>26, <1>27, <1>28 DEF Next, ClientSteps,
     RunSteps

\* A deletion stays with the chat of its run.
LEMMA DeletesOwnFileStep ==
    ASSUME TypeOK, DeletingHolds, DeletesOwnFile, Next, NEW d \in Clients
    PROVE  /\ at'[d] = "deleting" => target'[d] = key'[from'[d]]
           /\ at'[d] = "unlinking" => TTLElapses
<1>. DEFINE Goal == /\ at'[d] = "deleting" => target'[d] = key'[from'[d]]
                    /\ at'[d] = "unlinking" => TTLElapses
<1>a. /\ at[d] = "deleting" => /\ target[d] = key[from[d]]
                               /\ from[d] \in Runs /\ phase[from[d]] = "placeholder"
      /\ at[d] = "unlinking" => TTLElapses
  BY DEF DeletesOwnFile, DeletingHolds
<1>1. ASSUME NEW c \in Clients, NEW k \in Keys,
             NEW op \in {"attaching", "starting", "stopping"}, Call(c, op, k)
      PROVE  Goal
  BY <1>1, <1>a, VariableTypes DEF Call, runVars, diskVars
<1>2. ASSUME NEW c \in Clients, NEW k \in Keys, Attach(c, k)
      PROVE  Goal
  BY <1>2, <1>a, VariableTypes DEF Attach, Subscribe, diskVars, budgets
<1>3. ASSUME NEW c \in Clients, NEW k \in Keys, AttachMisses(c, k)
      PROVE  Goal
  BY <1>3, <1>a, VariableTypes DEF AttachMisses, runVars, diskVars, budgets
<1>4. ASSUME NEW c \in Clients, NEW k \in Keys, Join(c, k)
      PROVE  Goal
  BY <1>4, <1>a, VariableTypes DEF Join, Subscribe, diskVars, budgets
<1>5. ASSUME NEW c \in Clients, NEW k \in Keys, Start(c, k)
      PROVE  Goal
  BY <1>5, <1>a, VariableTypes DEF Start, diskVars, budgets, Used
<1>6. ASSUME NEW c \in Clients, NEW k \in Keys, Stop(c, k)
      PROVE  Goal
  BY <1>6, <1>a, VariableTypes DEF Stop, Ends, diskVars
<1>7. ASSUME NEW c \in Clients, ReadReplay(c)
      PROVE  Goal
  BY <1>7, <1>a, VariableTypes DEF ReadReplay, runVars, diskVars, lockVars,
     budgets
<1>8. ASSUME NEW c \in Clients, ReadNothing(c)
      PROVE  Goal
  BY <1>8, <1>a, VariableTypes DEF ReadNothing, Ends, runVars, diskVars,
     lockVars, budgets
<1>9. ASSUME NEW c \in Clients, ReadExpired(c)
      PROVE  Goal
  BY <1>9, <1>a, VariableTypes DEF ReadExpired, runVars, diskVars, lockVars,
     budgets
<1>10. ASSUME NEW c \in Clients, UnlinkExpired(c)
      PROVE  Goal
  BY <1>10, <1>a, VariableTypes DEF UnlinkExpired, Ends, runVars, lockVars,
     budgets
<1>11. ASSUME NEW c \in Clients, DeleteReplay(c)
      PROVE  Goal
  BY <1>11, <1>a, VariableTypes DEF DeleteReplay, budgets
<1>12. ASSUME NEW c \in Clients, DeleteFails(c)
      PROVE  Goal
  BY <1>12, <1>a, VariableTypes DEF DeleteFails, Ends, diskVars
<1>13. ASSUME NEW c \in Clients, Leave(c)
      PROVE  Goal
  BY <1>13, <1>a, VariableTypes DEF Leave, runVars, diskVars, budgets
<1>14. ASSUME NEW c \in Clients, Detach(c)
      PROVE  Goal
  BY <1>14, <1>a, VariableTypes DEF Detach, Ends, diskVars, budgets
<1>15. ASSUME NEW c \in Clients, StopReturns(c)
      PROVE  Goal
  BY <1>15, <1>a, VariableTypes DEF StopReturns, Ends, runVars, diskVars,
     lockVars, budgets
<1>16. ASSUME NEW r \in Runs, Block(r)
      PROVE  Goal
  BY <1>16, <1>a, VariableTypes DEF Block, clientVars, diskVars, budgets
<1>17. ASSUME NEW r \in Runs, Enter(r)
      PROVE  Goal
  BY <1>17, <1>a, VariableTypes DEF Enter, clientVars, diskVars, budgets
<1>18. ASSUME NEW r \in Runs, Emit(r)
      PROVE  Goal
  BY <1>18, <1>a, VariableTypes DEF Emit, budgets
<1>19. ASSUME NEW r \in Runs, StreamEnds(r)
      PROVE  Goal
  BY <1>19, <1>a, VariableTypes DEF StreamEnds, clientVars, diskVars, budgets
<1>20. ASSUME NEW r \in Runs, StreamRaises(r)
      PROVE  Goal
  BY <1>20, <1>a, VariableTypes DEF StreamRaises, clientVars, diskVars
<1>21. ASSUME NEW r \in Runs, ReportError(r)
      PROVE  Goal
  BY <1>21, <1>a, VariableTypes DEF ReportError, diskVars, budgets
<1>22. ASSUME NEW r \in Runs, Finalise(r)
      PROVE  Goal
  BY <1>22, <1>a, VariableTypes DEF Finalise, budgets
<1>23. ASSUME NEW r \in Runs, RaiseCancelled(r) \/ GiveUpWrite(r)
      PROVE  Goal
  BY <1>23, <1>a, VariableTypes, CancelSteps DEF CancelMoves
<1>24. ASSUME NEW w \in writes, WriteLands(w) \/ WriteFails(w)
      PROVE  Goal
  BY <1>24, <1>a, VariableTypes, WriteSteps DEF WriteMoves
<1>26. ASSUME NEW k \in Keys, PruneReplay(k)
      PROVE  Goal
  BY <1>26, <1>a, VariableTypes DEF PruneReplay, runVars, clientVars, lockVars,
     budgets
<1>27. ASSUME GetStatus
      PROVE  Goal
  BY <1>27, <1>a, VariableTypes DEF GetStatus, runVars, clientVars, diskVars,
     lockVars, budgets
<1>28. ASSUME Crash
      PROVE  Goal
  BY <1>28, <1>a, VariableTypes DEF Crash
<1>. QED
  BY <1>1, <1>2, <1>3, <1>4, <1>5, <1>6, <1>7, <1>8, <1>9, <1>10, <1>11,
     <1>12, <1>13, <1>14, <1>15, <1>16, <1>17, <1>18, <1>19, <1>20, <1>21,
     <1>22, <1>23, <1>24, <1>26, <1>27, <1>28 DEF Next, ClientSteps,
     RunSteps

\* Only CancelledErrors count.
LEMMA CancelsGrow ==
    ASSUME TypeOK, Next, NEW q \in Runs
    PROVE  /\ cancels'[q] \in {cancels[q], cancels[q] + 1}
           /\ cancels'[q] # cancels[q] => phase[q] # "unused"
           /\ LeftBehind(q) => LeftBehind(q)'
<1>. DEFINE Goal == /\ cancels'[q] \in {cancels[q], cancels[q] + 1}
                    /\ cancels'[q] # cancels[q] => phase[q] # "unused"
<1>0. cancels \in [Runs -> Nat]
  BY DEF TypeOK
<1>1. ASSUME NEW c \in Clients, NEW k \in Keys,
             NEW op \in {"attaching", "starting", "stopping"}, Call(c, op, k)
      PROVE  Goal
  BY <1>1, <1>0, VariableTypes DEF Call, runVars, diskVars
<1>2. ASSUME NEW c \in Clients, NEW k \in Keys, Attach(c, k)
      PROVE  Goal
  BY <1>2, <1>0, VariableTypes DEF Attach, Subscribe, diskVars, budgets
<1>3. ASSUME NEW c \in Clients, NEW k \in Keys, AttachMisses(c, k)
      PROVE  Goal
  BY <1>3, <1>0, VariableTypes DEF AttachMisses, runVars, diskVars, budgets
<1>4. ASSUME NEW c \in Clients, NEW k \in Keys, Join(c, k)
      PROVE  Goal
  BY <1>4, <1>0, VariableTypes DEF Join, Subscribe, diskVars, budgets
<1>5. ASSUME NEW c \in Clients, NEW k \in Keys, Start(c, k)
      PROVE  Goal
  BY <1>5, <1>0, VariableTypes DEF Start, diskVars, budgets, Used
<1>6. ASSUME NEW c \in Clients, NEW k \in Keys, Stop(c, k)
      PROVE  Goal
  BY <1>6, <1>0, VariableTypes DEF Stop, diskVars
<1>7. ASSUME NEW c \in Clients, ReadReplay(c)
      PROVE  Goal
  BY <1>7, <1>0, VariableTypes DEF ReadReplay, runVars, diskVars, budgets
<1>8. ASSUME NEW c \in Clients, ReadNothing(c)
      PROVE  Goal
  BY <1>8, <1>0, VariableTypes DEF ReadNothing, runVars, diskVars, budgets
<1>9. ASSUME NEW c \in Clients, ReadExpired(c)
      PROVE  Goal
  BY <1>9, <1>0, VariableTypes DEF ReadExpired, runVars, diskVars, budgets
<1>10. ASSUME NEW c \in Clients, UnlinkExpired(c)
      PROVE  Goal
  BY <1>10, <1>0, VariableTypes DEF UnlinkExpired, runVars, budgets
<1>11. ASSUME NEW c \in Clients, DeleteReplay(c)
      PROVE  Goal
  BY <1>11, <1>0, VariableTypes DEF DeleteReplay, budgets
<1>12. ASSUME NEW c \in Clients, DeleteFails(c)
      PROVE  Goal
  BY <1>12, <1>0, VariableTypes DEF DeleteFails
<1>13. ASSUME NEW c \in Clients, Leave(c)
      PROVE  Goal
  BY <1>13, <1>0, VariableTypes DEF Leave, runVars, diskVars, budgets
<1>14. ASSUME NEW c \in Clients, Detach(c)
      PROVE  Goal
  BY <1>14, <1>0, VariableTypes DEF Detach, diskVars, budgets
<1>15. ASSUME NEW c \in Clients, StopReturns(c)
      PROVE  Goal
  BY <1>15, <1>0, VariableTypes DEF StopReturns, runVars, diskVars, budgets
<1>16. ASSUME NEW r \in Runs, Block(r)
      PROVE  Goal
  BY <1>16, <1>0, VariableTypes DEF Block, diskVars, budgets
<1>17. ASSUME NEW r \in Runs, Enter(r)
      PROVE  Goal
  BY <1>17, <1>0, VariableTypes DEF Enter, diskVars, budgets
<1>18. ASSUME NEW r \in Runs, Emit(r)
      PROVE  Goal
  BY <1>18, <1>0, VariableTypes DEF Emit, budgets
<1>19. ASSUME NEW r \in Runs, StreamEnds(r)
      PROVE  Goal
  BY <1>19, <1>0, VariableTypes DEF StreamEnds, diskVars, budgets
<1>20. ASSUME NEW r \in Runs, StreamRaises(r)
      PROVE  Goal
  BY <1>20, <1>0, VariableTypes DEF StreamRaises, diskVars
<1>21. ASSUME NEW r \in Runs, ReportError(r)
      PROVE  Goal
  BY <1>21, <1>0, VariableTypes DEF ReportError, diskVars, budgets
<1>22. ASSUME NEW r \in Runs, Finalise(r)
      PROVE  Goal
  BY <1>22, <1>0, VariableTypes DEF Finalise, budgets
<1>23. ASSUME NEW r \in Runs, RaiseCancelled(r) \/ GiveUpWrite(r)
      PROVE  Goal
  BY <1>23, <1>0, VariableTypes, CancelSteps DEF CancelMoves
<1>24. ASSUME NEW w \in writes, WriteLands(w) \/ WriteFails(w)
      PROVE  Goal
  BY <1>24, <1>0, VariableTypes, WriteSteps DEF WriteMoves
<1>26. ASSUME NEW k \in Keys, PruneReplay(k)
      PROVE  Goal
  BY <1>26, <1>0, VariableTypes DEF PruneReplay, runVars, budgets
<1>27. ASSUME GetStatus
      PROVE  Goal
  BY <1>27, <1>0, VariableTypes DEF GetStatus, runVars, diskVars, budgets
<1>28. ASSUME Crash
      PROVE  Goal
  BY <1>28, <1>0, VariableTypes DEF Crash
<1>29. Goal
  BY <1>1, <1>2, <1>3, <1>4, <1>5, <1>6, <1>7, <1>8, <1>9, <1>10, <1>11, <1>12,
     <1>13, <1>14, <1>15, <1>16, <1>17, <1>18, <1>19, <1>20, <1>21, <1>22,
     <1>23, <1>24, <1>26, <1>27, <1>28 DEF Next, ClientSteps, RunSteps
<1>. QED
  BY <1>0, <1>29 DEF LeftBehind

\* Whoever drains a write has been cancelled.
LEMMA DrainsOnceCancelledStep ==
    ASSUME TypeOK, DeletingHolds, DrainsOnceCancelled, Next, NEW q \in Runs
    PROVE  /\ phase'[q] \in {"draining", "sealing"} => cancels'[q] > 0
           /\ phase'[q] = "unused" => cancels'[q] = 0
<1>. DEFINE Goal == phase'[q] \in {"draining", "sealing"} => cancels'[q] > 0
<1>0. /\ cancels \in [Runs -> Nat]
      /\ phase[q] \in {"draining", "sealing"} => cancels[q] > 0
      /\ cancels'[q] \in {cancels[q], cancels[q] + 1}
  BY CancelsGrow DEF TypeOK, DrainsOnceCancelled
<1>a. phase'[q] = phase[q] \/ phase'[q] \notin {"draining", "sealing"} => Goal
  BY <1>0
<1>z. phase'[q] = "unused" => cancels'[q] = 0
  BY CancelsGrow, UsedSteps DEF DrainsOnceCancelled
<1>b. \A c \in Clients : at[c] = "deleting" => phase[from[c]] = "placeholder"
  BY DEF DeletingHolds
<1>1. ASSUME NEW c \in Clients, NEW k \in Keys,
             NEW op \in {"attaching", "starting", "stopping"}, Call(c, op, k)
      PROVE  Goal
  BY <1>1, <1>a, <1>b, VariableTypes DEF Call, runVars, diskVars
<1>2. ASSUME NEW c \in Clients, NEW k \in Keys, Attach(c, k)
      PROVE  Goal
  BY <1>2, <1>a, <1>b, VariableTypes DEF Attach, Subscribe, diskVars, budgets
<1>3. ASSUME NEW c \in Clients, NEW k \in Keys, AttachMisses(c, k)
      PROVE  Goal
  BY <1>3, <1>a, <1>b, VariableTypes DEF AttachMisses, runVars, diskVars,
     budgets
<1>4. ASSUME NEW c \in Clients, NEW k \in Keys, Join(c, k)
      PROVE  Goal
  BY <1>4, <1>a, <1>b, VariableTypes DEF Join, Subscribe, diskVars, budgets
<1>5. ASSUME NEW c \in Clients, NEW k \in Keys, Start(c, k)
      PROVE  Goal
  BY <1>5, <1>a, <1>b, VariableTypes DEF Start, diskVars, budgets, Used
<1>6. ASSUME NEW c \in Clients, NEW k \in Keys, Stop(c, k)
      PROVE  Goal
  BY <1>6, <1>a, <1>b, VariableTypes DEF Stop, diskVars
<1>7. ASSUME NEW c \in Clients, ReadReplay(c)
      PROVE  Goal
  BY <1>7, <1>a, <1>b, VariableTypes DEF ReadReplay, runVars, diskVars, budgets
<1>8. ASSUME NEW c \in Clients, ReadNothing(c)
      PROVE  Goal
  BY <1>8, <1>a, <1>b, VariableTypes DEF ReadNothing, runVars, diskVars,
     budgets
<1>9. ASSUME NEW c \in Clients, ReadExpired(c)
      PROVE  Goal
  BY <1>9, <1>a, <1>b, VariableTypes DEF ReadExpired, runVars, diskVars,
     budgets
<1>10. ASSUME NEW c \in Clients, UnlinkExpired(c)
      PROVE  Goal
  BY <1>10, <1>a, <1>b, VariableTypes DEF UnlinkExpired, runVars, budgets
<1>11. ASSUME NEW c \in Clients, DeleteReplay(c)
      PROVE  Goal
  BY <1>11, <1>a, <1>b, VariableTypes DEF DeleteReplay, budgets
<1>12. ASSUME NEW c \in Clients, DeleteFails(c)
      PROVE  Goal
  BY <1>12, <1>a, <1>b, VariableTypes DEF DeleteFails
<1>13. ASSUME NEW c \in Clients, Leave(c)
      PROVE  Goal
  BY <1>13, <1>a, <1>b, VariableTypes DEF Leave, runVars, diskVars, budgets
<1>14. ASSUME NEW c \in Clients, Detach(c)
      PROVE  Goal
  BY <1>14, <1>a, <1>b, VariableTypes DEF Detach, diskVars, budgets
<1>15. ASSUME NEW c \in Clients, StopReturns(c)
      PROVE  Goal
  BY <1>15, <1>a, <1>b, VariableTypes DEF StopReturns, runVars, diskVars,
     budgets
<1>16. ASSUME NEW r \in Runs, Block(r)
      PROVE  Goal
  BY <1>16, <1>a, <1>b, VariableTypes DEF Block, diskVars, budgets
<1>17. ASSUME NEW r \in Runs, Enter(r)
      PROVE  Goal
  BY <1>17, <1>a, <1>b, VariableTypes DEF Enter, diskVars, budgets
<1>18. ASSUME NEW r \in Runs, Emit(r)
      PROVE  Goal
  BY <1>18, <1>a, <1>b, VariableTypes DEF Emit, budgets
<1>19. ASSUME NEW r \in Runs, StreamEnds(r)
      PROVE  Goal
  BY <1>19, <1>a, <1>b, VariableTypes DEF StreamEnds, diskVars, budgets
<1>20. ASSUME NEW r \in Runs, StreamRaises(r)
      PROVE  Goal
  BY <1>20, <1>a, <1>b, VariableTypes DEF StreamRaises, diskVars
<1>21. ASSUME NEW r \in Runs, ReportError(r)
      PROVE  Goal
  BY <1>21, <1>a, <1>b, VariableTypes DEF ReportError, diskVars, budgets
<1>22. ASSUME NEW r \in Runs, Finalise(r)
      PROVE  Goal
  BY <1>22, <1>a, <1>b, VariableTypes DEF Finalise, budgets
<1>23. ASSUME NEW r \in Runs, RaiseCancelled(r) \/ GiveUpWrite(r)
      PROVE  Goal
  <2>1. cancels'[r] = cancels[r] + 1
    BY <1>0, <1>23, CancelSteps DEF TypeOK
  <2>2. q # r => phase'[q] = phase[q]
    BY <1>23, CancelledPhases
  <2>. QED
    BY <1>0, <1>a, <1>z, <2>1, <2>2
<1>24. ASSUME NEW w \in writes, WriteLands(w) \/ WriteFails(w)
      PROVE  Goal
  BY <1>24, <1>a, <1>b, VariableTypes, WriteSteps DEF WriteMoves
<1>26. ASSUME NEW k \in Keys, PruneReplay(k)
      PROVE  Goal
  BY <1>26, <1>a, <1>b, VariableTypes DEF PruneReplay, runVars, budgets
<1>27. ASSUME GetStatus
      PROVE  Goal
  BY <1>27, <1>a, <1>b, VariableTypes DEF GetStatus, runVars, diskVars, budgets
<1>28. ASSUME Crash
      PROVE  Goal
  BY <1>28, <1>a, <1>b, VariableTypes DEF Crash
<1>. QED
  BY <1>z, <1>1, <1>2, <1>3, <1>4, <1>5, <1>6, <1>7, <1>8, <1>9, <1>10, <1>11, <1>12,
     <1>13, <1>14, <1>15, <1>16, <1>17, <1>18, <1>19, <1>20, <1>21, <1>22,
     <1>23, <1>24, <1>26, <1>27, <1>28 DEF Next, ClientSteps, RunSteps

\* Writes in flight stay attended.
LEMMA WritesAttendedStep ==
    ASSUME TypeOK, DeletingHolds, DrainsOnceCancelled, WritesAttended, Next,
           NEW u \in writes', u.run \in Runs, ~LeftBehind(u.run)'
    PROVE  Attended(u)'
<1>. DEFINE Goal == Attended(u)'
<1>c. ~LeftBehind(u.run)
  BY CancelsGrow
<1>d. u \in writes =>
        /\ phase[u.run] \in IF u.final THEN {"flushing", "sealing"}
                                       ELSE {"persisting", "draining"}
        /\ u.final => u.events = buffer[u.run]
        /\ \A v \in writes : v.run = u.run => v = u
  BY <1>c DEF WritesAttended, Attended
<1>b. u \in writes => buffer'[u.run] = buffer[u.run]
  BY <1>d, BufferSteps
<1>a. u \in writes /\ writes' \subseteq writes /\ phase'[u.run] = phase[u.run] => Goal
  BY <1>b, <1>d DEF Attended
<1>e. \A c \in Clients : at[c] = "deleting" => phase[from[c]] = "placeholder"
  BY DEF DeletingHolds
<1>f. u \in writes =>
        phase[u.run] \in {"flushing", "sealing", "persisting", "draining"}
  BY <1>d
<1>1. ASSUME NEW c \in Clients, NEW k \in Keys,
             NEW op \in {"attaching", "starting", "stopping"}, Call(c, op, k)
      PROVE  Goal
  BY <1>1, <1>a, <1>e, <1>f, VariableTypes DEF Call, runVars, diskVars
<1>2. ASSUME NEW c \in Clients, NEW k \in Keys, Attach(c, k)
      PROVE  Goal
  BY <1>2, <1>a, <1>e, <1>f, VariableTypes DEF Attach, Subscribe, diskVars,
     budgets
<1>3. ASSUME NEW c \in Clients, NEW k \in Keys, AttachMisses(c, k)
      PROVE  Goal
  BY <1>3, <1>a, <1>e, <1>f, VariableTypes DEF AttachMisses, runVars, diskVars,
     budgets
<1>4. ASSUME NEW c \in Clients, NEW k \in Keys, Join(c, k)
      PROVE  Goal
  BY <1>4, <1>a, <1>e, <1>f, VariableTypes DEF Join, Subscribe, diskVars,
     budgets
<1>5. ASSUME NEW c \in Clients, NEW k \in Keys, Start(c, k)
      PROVE  Goal
  BY <1>5, <1>a, <1>e, <1>f, VariableTypes DEF Start, diskVars, budgets, Used
<1>6. ASSUME NEW c \in Clients, NEW k \in Keys, Stop(c, k)
      PROVE  Goal
  BY <1>6, <1>a, <1>e, <1>f, VariableTypes DEF Stop, diskVars
<1>7. ASSUME NEW c \in Clients, ReadReplay(c)
      PROVE  Goal
  BY <1>7, <1>a, <1>e, <1>f, VariableTypes DEF ReadReplay, runVars, diskVars,
     budgets
<1>8. ASSUME NEW c \in Clients, ReadNothing(c)
      PROVE  Goal
  BY <1>8, <1>a, <1>e, <1>f, VariableTypes DEF ReadNothing, runVars, diskVars,
     budgets
<1>9. ASSUME NEW c \in Clients, ReadExpired(c)
      PROVE  Goal
  BY <1>9, <1>a, <1>e, <1>f, VariableTypes DEF ReadExpired, runVars, diskVars,
     budgets
<1>10. ASSUME NEW c \in Clients, UnlinkExpired(c)
      PROVE  Goal
  BY <1>10, <1>a, <1>e, <1>f, VariableTypes DEF UnlinkExpired, runVars, budgets
<1>11. ASSUME NEW c \in Clients, DeleteReplay(c)
      PROVE  Goal
  BY <1>11, <1>a, <1>e, <1>f, VariableTypes DEF DeleteReplay, budgets
<1>12. ASSUME NEW c \in Clients, DeleteFails(c)
      PROVE  Goal
  BY <1>12, <1>a, <1>e, <1>f, VariableTypes DEF DeleteFails
<1>13. ASSUME NEW c \in Clients, Leave(c)
      PROVE  Goal
  BY <1>13, <1>a, <1>e, <1>f, VariableTypes DEF Leave, runVars, diskVars,
     budgets
<1>14. ASSUME NEW c \in Clients, Detach(c)
      PROVE  Goal
  BY <1>14, <1>a, <1>e, <1>f, VariableTypes DEF Detach, diskVars, budgets
<1>15. ASSUME NEW c \in Clients, StopReturns(c)
      PROVE  Goal
  BY <1>15, <1>a, <1>e, <1>f, VariableTypes DEF StopReturns, runVars, diskVars,
     budgets
<1>16. ASSUME NEW r \in Runs, Block(r)
      PROVE  Goal
  BY <1>16, <1>a, <1>e, <1>f, VariableTypes DEF Block, diskVars, budgets
<1>17. ASSUME NEW r \in Runs, Enter(r)
      PROVE  Goal
  BY <1>17, <1>a, <1>e, <1>f, VariableTypes DEF Enter, diskVars, budgets
<1>18. ASSUME NEW r \in Runs, Emit(r)
      PROVE  Goal
  <2>1. /\ phase[r] \in {"streaming", "emitting"}
        /\ \A p \in Runs : p # r => phase'[p] = phase[p]
        /\ \/ phase'[r] = "persisting" /\ writes' = writes \cup {Snapshot(r, buffer'[r], FALSE)}
           \/ writes' = writes
    BY <1>18, VariableTypes DEF Emit
  <2>2. CASE u \in writes
    <3>1. u.run # r
      BY <1>f, <2>1, <2>2
    <3>. QED
      BY <1>b, <1>d, <2>1, <2>2, <3>1 DEF Attended, Snapshot
  <2>3. CASE u \notin writes
    <3>1. u = Snapshot(r, buffer'[r], FALSE) /\ phase'[r] = "persisting"
      BY <2>1, <2>3
    <3>2. u.run = r /\ ~u.final
      BY <3>1 DEF Snapshot
    <3>3. \A v \in writes : v.run # r
      BY <1>c, <2>1, <3>2 DEF WritesAttended, Attended
    <3>. QED
      BY <2>1, <3>1, <3>2, <3>3 DEF Attended
  <2>. QED
    BY <2>2, <2>3
<1>19. ASSUME NEW r \in Runs, StreamEnds(r)
      PROVE  Goal
  BY <1>19, <1>a, <1>e, <1>f, VariableTypes DEF StreamEnds, diskVars, budgets
<1>20. ASSUME NEW r \in Runs, StreamRaises(r)
      PROVE  Goal
  BY <1>20, <1>a, <1>e, <1>f, VariableTypes DEF StreamRaises, diskVars
<1>21. ASSUME NEW r \in Runs, ReportError(r)
      PROVE  Goal
  BY <1>21, <1>a, <1>e, <1>f, VariableTypes DEF ReportError, diskVars, budgets
<1>22. ASSUME NEW r \in Runs, Finalise(r)
      PROVE  Goal
  <2>1. /\ phase[r] = "finishing" /\ buffer' = buffer
        /\ \A p \in Runs : p # r => phase'[p] = phase[p]
        /\ \/ phase'[r] = "flushing" /\ writes' = writes \cup {Snapshot(r, buffer[r], TRUE)}
           \/ writes' = writes
    BY <1>22, VariableTypes DEF Finalise
  <2>2. CASE u \in writes
    <3>1. u.run # r
      BY <1>f, <2>1, <2>2
    <3>. QED
      BY <1>b, <1>d, <2>1, <2>2, <3>1 DEF Attended, Snapshot
  <2>3. CASE u \notin writes
    <3>1. u = Snapshot(r, buffer[r], TRUE) /\ phase'[r] = "flushing"
      BY <2>1, <2>3
    <3>2. u.run = r /\ u.final /\ u.events = buffer'[r]
      BY <2>1, <3>1 DEF Snapshot
    <3>3. \A v \in writes : v.run # r
      BY <1>c, <2>1, <3>2 DEF WritesAttended, Attended
    <3>. QED
      BY <2>1, <3>1, <3>2, <3>3 DEF Attended
  <2>. QED
    BY <2>2, <2>3
<1>23. ASSUME NEW r \in Runs, RaiseCancelled(r) \/ GiveUpWrite(r)
      PROVE  Goal
  <2>1. /\ cancels' = [cancels EXCEPT ![r] = @ + 1]
        /\ \A p \in Runs : p # r => phase'[p] = phase[p]
    BY <1>23, CancelSteps, CancelledPhases
  <2>2. writes' \subseteq writes /\ u \in writes
    BY <1>23 DEF RaiseCancelled, GiveUpWrite, diskVars
  <2>3. CASE u.run # r
    BY <1>a, <2>1, <2>2, <2>3
  <2>4. CASE u.run = r
    <3>1. phase[r] \notin {"draining", "sealing"}
      <4>1. cancels[r] \in Nat /\ cancels'[r] = cancels[r] + 1 /\ ~(cancels'[r] > 1)
        BY <2>1, <2>4 DEF TypeOK, LeftBehind
      <4>. QED
        BY <4>1 DEF DrainsOnceCancelled
    <3>2. phase[r] = IF u.final THEN "flushing" ELSE "persisting"
      BY <1>d, <2>2, <2>4, <3>1
    <3>3. u \in Unwritten(r)
      <4>1. u.final \in BOOLEAN
        BY <2>2, VariableTypes DEF TypeOK
      <4>2. u.final = (phase[r] \in {"flushing", "sealing"})
        BY <3>2, <4>1
      <4>. QED
        BY <2>2, <2>4, <4>2 DEF Unwritten
    <3>4. RaiseCancelled(r)
      BY <1>23, <3>3 DEF GiveUpWrite
    <3>5. /\ phase' = [phase EXCEPT ![r] = IF @ = "persisting" THEN "draining"
                                                               ELSE "sealing"]
          /\ writes' = writes
      BY <3>2, <3>3, <3>4 DEF RaiseCancelled, diskVars
    <3>6. phase'[u.run] = IF u.final THEN "sealing" ELSE "draining"
      BY <2>4, <3>2, <3>5, VariableTypes
    <3>. QED
      BY <1>b, <1>d, <2>2, <3>5, <3>6 DEF Attended
  <2>. QED
    BY <2>3, <2>4
<1>24. ASSUME NEW w \in writes, WriteLands(w) \/ WriteFails(w)
      PROVE  Goal
  <2>1. writes' = writes \ {w} /\ \A p \in Runs : p # w.run => phase'[p] = phase[p]
    BY <1>24, WrittenPhases
  <2>2. u \in writes /\ u.run # w.run
    BY <1>d, <2>1
  <2>. QED
    BY <1>a, <2>1, <2>2
<1>26. ASSUME NEW k \in Keys, PruneReplay(k)
      PROVE  Goal
  BY <1>26, <1>a, <1>e, <1>f, VariableTypes DEF PruneReplay, runVars, budgets
<1>27. ASSUME GetStatus
      PROVE  Goal
  BY <1>27, <1>a, <1>e, <1>f, VariableTypes DEF GetStatus, runVars, diskVars,
     budgets
<1>28. ASSUME Crash
      PROVE  Goal
  BY <1>28, <1>a, <1>e, <1>f, VariableTypes DEF Crash
<1>. QED
  BY <1>1, <1>2, <1>3, <1>4, <1>5, <1>6, <1>7, <1>8, <1>9, <1>10, <1>11, <1>12,
     <1>13, <1>14, <1>15, <1>16, <1>17, <1>18, <1>19, <1>20, <1>21, <1>22,
     <1>23, <1>24, <1>26, <1>27, <1>28 DEF Next, ClientSteps, RunSteps

\* What the steps below need of the writes and deletions in flight.
LEMMA FilesInFlight ==
    ASSUME ReplayInv, Next, NEW q \in Runs
    PROVE  /\ \A w \in writes : ~LeftBehind(w.run) =>
                /\ w.run \in Runs /\ Attended(w) /\ runs[key[w.run]] = w.run
           /\ phase[q] # "unused" => key'[q] = key[q]
           /\ phase[q] # "unused" /\ runs[key[q]] # 0 => q <= runs[key[q]]
           /\ \A c \in Clients : at[c] = "deleting" =>
                /\ from[c] \in Runs /\ phase[from[c]] = "placeholder"
                /\ target[c] = key[from[c]] /\ runs[key[from[c]]] = from[c]
           /\ \A c \in Clients : at[c] = "unlinking" => TTLElapses
<1>. /\ TypeOK /\ DeletingHolds /\ LiveRunIsRegistered /\ NewestRegistered
     /\ DeletesOwnFile /\ WritesAttended
  BY DEF ReplayInv, IInv, RegInv
<1>1. ASSUME NEW w \in writes, ~LeftBehind(w.run)
      PROVE  w.run \in Runs /\ Attended(w) /\ runs[key[w.run]] = w.run
  <2>1. w.run \in Runs /\ Attended(w)
    BY <1>1, VariableTypes DEF WritesAttended
  <2>2. Live(w.run)
    BY <2>1 DEF Attended, Live, Producing
  <2>. QED
    BY <2>1, <2>2 DEF LiveRunIsRegistered
<1>2. /\ phase[q] # "unused" => key'[q] = key[q]
      /\ phase[q] # "unused" /\ runs[key[q]] # 0 => q <= runs[key[q]]
  BY UsedSteps DEF NewestRegistered, Used
<1>3. ASSUME NEW c \in Clients, at[c] = "deleting"
      PROVE  /\ from[c] \in Runs /\ phase[from[c]] = "placeholder"
             /\ target[c] = key[from[c]] /\ runs[key[from[c]]] = from[c]
  BY <1>3 DEF DeletingHolds, DeletesOwnFile, LiveRunIsRegistered, Live
<1>. QED
  BY <1>1, <1>2, <1>3 DEF DeletesOwnFile

\* The file of a chat stays as new as the runs that were started for it.
LEMMA NoStaleReplayStep ==
    ASSUME ReplayInv, Next, NEW q \in Runs, Started(q)', disk'[key'[q]] # NoFile
    PROVE  disk'[key'[q]].run >= q \/ (cancels'[disk'[key'[q]].run] > 1)
<1>. DEFINE Goal == disk'[key'[q]].run >= q \/ (cancels'[disk'[key'[q]].run] > 1)
<1>. TypeOK /\ NoStaleReplay
  BY DEF ReplayInv, IInv, RegInv
<1>c. \A w \in writes : ~LeftBehind(w.run) =>
        /\ w.run \in Runs /\ Attended(w) /\ runs[key[w.run]] = w.run
  BY FilesInFlight
<1>d. /\ phase[q] # "unused" => key'[q] = key[q]
      /\ phase[q] # "unused" /\ runs[key[q]] # 0 => q <= runs[key[q]]
  BY FilesInFlight
<1>e. \A c \in Clients : at[c] = "deleting" =>
        /\ from[c] \in Runs /\ phase[from[c]] = "placeholder"
        /\ target[c] = key[from[c]] /\ runs[key[from[c]]] = from[c]
  BY FilesInFlight
<1>f. q \in Runs /\ disk \in [Keys -> [run : Runs, events : Seq(Nat)] \cup {NoFile}]
  BY DEF TypeOK
<1>a. Started(q) /\ (disk'[key[q]] = disk[key[q]] \/ disk'[key[q]] = NoFile) => Goal
  <2>1. Started(q) => key[q] \in Keys /\ key'[q] = key[q]
    BY <1>d, VariableTypes DEF Started
  <2>2. Started(q) /\ disk[key[q]] # NoFile
          => disk[key[q]].run >= q \/ LeftBehind(disk[key[q]].run)
    BY DEF NoStaleReplay
  <2>3. \A p \in Runs : cancels[p] > 1 => cancels'[p] > 1
    BY CancelsGrow DEF LeftBehind
  <2>4. Started(q) /\ disk[key[q]] # NoFile => disk[key[q]].run \in Runs
    BY <1>f, <2>1
  <2>. QED
    BY <2>1, <2>2, <2>3, <2>4 DEF LeftBehind
<1>. phase'[q] \notin {"unused", "placeholder", "stuck", "dropped", "lost"}
  BY DEF Started
<1>1. ASSUME NEW c \in Clients, NEW k \in Keys,
             NEW op \in {"attaching", "starting", "stopping"}, Call(c, op, k)
      PROVE  Goal
  BY <1>1, <1>a, <1>e, <1>f, VariableTypes DEF Call, runVars, diskVars, Started
<1>2. ASSUME NEW c \in Clients, NEW k \in Keys, Attach(c, k)
      PROVE  Goal
  BY <1>2, <1>a, <1>e, <1>f, VariableTypes DEF Attach, Subscribe, diskVars,
     budgets, Started
<1>3. ASSUME NEW c \in Clients, NEW k \in Keys, AttachMisses(c, k)
      PROVE  Goal
  BY <1>3, <1>a, <1>e, <1>f, VariableTypes DEF AttachMisses, runVars, diskVars,
     budgets, Started
<1>4. ASSUME NEW c \in Clients, NEW k \in Keys, Join(c, k)
      PROVE  Goal
  BY <1>4, <1>a, <1>e, <1>f, VariableTypes DEF Join, Subscribe, diskVars,
     budgets, Started
<1>5. ASSUME NEW c \in Clients, NEW k \in Keys, Start(c, k)
      PROVE  Goal
  BY <1>5, <1>a, <1>e, <1>f, VariableTypes DEF Start, diskVars, budgets, Used,
     Started
<1>6. ASSUME NEW c \in Clients, NEW k \in Keys, Stop(c, k)
      PROVE  Goal
  BY <1>6, <1>a, <1>e, <1>f, VariableTypes DEF Stop, diskVars, Started
<1>7. ASSUME NEW c \in Clients, ReadReplay(c)
      PROVE  Goal
  BY <1>7, <1>a, <1>e, <1>f, VariableTypes DEF ReadReplay, runVars, diskVars,
     budgets, Started
<1>8. ASSUME NEW c \in Clients, ReadNothing(c)
      PROVE  Goal
  BY <1>8, <1>a, <1>e, <1>f, VariableTypes DEF ReadNothing, runVars, diskVars,
     budgets, Started
<1>9. ASSUME NEW c \in Clients, ReadExpired(c)
      PROVE  Goal
  BY <1>9, <1>a, <1>e, <1>f, VariableTypes DEF ReadExpired, runVars, diskVars,
     budgets, Started
<1>10. ASSUME NEW c \in Clients, UnlinkExpired(c)
      PROVE  Goal
  BY <1>10, <1>a, <1>e, <1>f, VariableTypes DEF UnlinkExpired, runVars,
     budgets, Started
<1>11. ASSUME NEW c \in Clients, DeleteReplay(c)
      PROVE  Goal
  <2>1. /\ disk' = [disk EXCEPT ![target[c]] = NoFile]
        /\ phase' = [phase EXCEPT ![from[c]] = "created"]
        /\ at[c] = "deleting" /\ key' = key
    BY <1>11 DEF DeleteReplay
  <2>2. q # from[c]
    BY <1>e, <1>f, <2>1, VariableTypes
  <2>3. phase'[q] = phase[q]
    BY <2>1, <2>2, VariableTypes
  <2>4. disk'[key[q]] = disk[key[q]]
    BY <1>f, <2>1, VariableTypes
  <2>. QED
    BY <1>a, <2>1, <2>3, <2>4 DEF Started
<1>12. ASSUME NEW c \in Clients, DeleteFails(c)
      PROVE  Goal
  <2>1. /\ phase' = [phase EXCEPT ![from[c]] = "stuck"]
        /\ disk' \in {disk, [disk EXCEPT ![target[c]] = NoFile]}
    BY <1>12 DEF DeleteFails
  <2>2. phase'[q] = phase[q]
    BY <2>1, VariableTypes
  <2>3. disk'[key[q]] = disk[key[q]] \/ disk'[key[q]] = NoFile
    BY <1>f, <2>1, VariableTypes
  <2>. QED
    BY <1>a, <2>2, <2>3 DEF Started
<1>13. ASSUME NEW c \in Clients, Leave(c)
      PROVE  Goal
  BY <1>13, <1>a, <1>e, <1>f, VariableTypes DEF Leave, runVars, diskVars,
     budgets, Started
<1>14. ASSUME NEW c \in Clients, Detach(c)
      PROVE  Goal
  BY <1>14, <1>a, <1>e, <1>f, VariableTypes DEF Detach, diskVars, budgets,
     Started
<1>15. ASSUME NEW c \in Clients, StopReturns(c)
      PROVE  Goal
  BY <1>15, <1>a, <1>e, <1>f, VariableTypes DEF StopReturns, runVars, diskVars,
     budgets, Started
<1>16. ASSUME NEW r \in Runs, Block(r)
      PROVE  Goal
  BY <1>16, <1>a, <1>e, <1>f, VariableTypes DEF Block, diskVars, budgets,
     Started
<1>17. ASSUME NEW r \in Runs, Enter(r)
      PROVE  Goal
  BY <1>17, <1>a, <1>e, <1>f, VariableTypes DEF Enter, diskVars, budgets,
     Started
<1>18. ASSUME NEW r \in Runs, Emit(r)
      PROVE  Goal
  <2>1. disk' = disk /\ Started(r) /\ \A p \in Runs : p # r => phase'[p] = phase[p]
    BY <1>18, VariableTypes DEF Emit, Started
  <2>. QED
    BY <1>a, <2>1 DEF Started
<1>19. ASSUME NEW r \in Runs, StreamEnds(r)
      PROVE  Goal
  BY <1>19, <1>a, <1>e, <1>f, VariableTypes DEF StreamEnds, diskVars, budgets,
     Started
<1>20. ASSUME NEW r \in Runs, StreamRaises(r)
      PROVE  Goal
  BY <1>20, <1>a, <1>e, <1>f, VariableTypes DEF StreamRaises, diskVars, Started
<1>21. ASSUME NEW r \in Runs, ReportError(r)
      PROVE  Goal
  BY <1>21, <1>a, <1>e, <1>f, VariableTypes DEF ReportError, diskVars, budgets,
     Started
<1>22. ASSUME NEW r \in Runs, Finalise(r)
      PROVE  Goal
  <2>1. disk' = disk /\ Started(r) /\ \A p \in Runs : p # r => phase'[p] = phase[p]
    BY <1>22, VariableTypes DEF Finalise, Started
  <2>. QED
    BY <1>a, <2>1 DEF Started
<1>23. ASSUME NEW r \in Runs, RaiseCancelled(r) \/ GiveUpWrite(r)
      PROVE  Goal
  <2>1. disk' = disk /\ Started(r) /\ \A p \in Runs : p # r => phase'[p] = phase[p]
    BY <1>23, CancelledPhases DEF Started, Producing
  <2>. QED
    BY <1>a, <2>1 DEF Started
<1>24. ASSUME NEW w \in writes, WriteLands(w) \/ WriteFails(w)
      PROVE  Goal
  <2>1. /\ key' = key /\ w.run \in Runs /\ cancels' = cancels
        /\ \A p \in Runs : phase'[p] # phase[p] => p = w.run /\ Started(p)
    BY <1>24, WrittenPhases DEF Started
  <2>2. Started(q)
    BY <2>1 DEF Started
  <2>3. CASE WriteFails(w)
    BY <1>a, <2>2, <2>3 DEF WriteFails
  <2>4. CASE WriteLands(w) /\ key[q] # key[w.run]
    <3>1. disk'[key[q]] = disk[key[q]]
      BY <1>f, <2>1, <2>4, VariableTypes DEF WriteLands
    <3>. QED
      BY <1>a, <2>2, <3>1
  <2>5. CASE WriteLands(w) /\ key[q] = key[w.run]
    <3>1. key'[q] = key[q] /\ disk'[key[q]].run = w.run
      BY <1>f, <2>1, <2>5, VariableTypes DEF WriteLands
    <3>2. CASE LeftBehind(w.run)
      BY <2>1, <3>1, <3>2 DEF LeftBehind
    <3>3. CASE ~LeftBehind(w.run)
      <4>1. q <= w.run
        BY <1>c, <1>d, <2>1, <2>2, <2>5, <3>3 DEF Started, Runs
      <4>. QED
        BY <2>1, <3>1, <4>1 DEF Runs
    <3>. QED
      BY <3>2, <3>3
  <2>. QED
    BY <1>24, <2>3, <2>4, <2>5
<1>26. ASSUME NEW k \in Keys, PruneReplay(k)
      PROVE  Goal
  BY <1>26, <1>a, <1>e, <1>f, VariableTypes DEF PruneReplay, runVars, budgets,
     Started
<1>27. ASSUME GetStatus
      PROVE  Goal
  BY <1>27, <1>a, <1>e, <1>f, VariableTypes DEF GetStatus, runVars, diskVars,
     budgets, Started
<1>28. ASSUME Crash
      PROVE  Goal
  BY <1>28, <1>a, <1>e, <1>f, VariableTypes DEF Crash, Started
<1>. QED
  BY <1>1, <1>2, <1>3, <1>4, <1>5, <1>6, <1>7, <1>8, <1>9, <1>10, <1>11, <1>12,
     <1>13, <1>14, <1>15, <1>16, <1>17, <1>18, <1>19, <1>20, <1>21, <1>22,
     <1>23, <1>24, <1>26, <1>27, <1>28 DEF Next, ClientSteps, RunSteps

\* The newest run of a chat that has ended stays on disk or on its way there.
LEMMA EndedIsDurableStep ==
    ASSUME ReplayInv, Next, faults' = 0, ~TTLElapses, NEW q \in Runs,
           Ended(q)', Undisturbed(q)'
    PROVE  Durable(q)' \/ \E w \in writes' : w.run = q /\ w.final
<1>. DEFINE Goal == Durable(q)' \/ \E w \in writes' : w.run = q /\ w.final
<1>. TypeOK /\ EndedIsDurable
  BY DEF ReplayInv, IInv, RegInv
<1>c. \A w \in writes : ~LeftBehind(w.run) =>
        /\ w.run \in Runs /\ Attended(w) /\ runs[key[w.run]] = w.run
  BY FilesInFlight
<1>d. /\ phase[q] # "unused" => key'[q] = key[q]
      /\ phase[q] # "unused" /\ runs[key[q]] # 0 => q <= runs[key[q]]
  BY FilesInFlight
<1>e. \A c \in Clients : at[c] = "deleting" =>
        /\ from[c] \in Runs /\ phase[from[c]] = "placeholder"
        /\ target[c] = key[from[c]] /\ runs[key[from[c]]] = from[c]
  BY FilesInFlight
<1>i. \A c \in Clients : at[c] # "unlinking"
  BY FilesInFlight
<1>f. q \in Runs /\ disk \in [Keys -> [run : Runs, events : Seq(Nat)] \cup {NoFile}]
  BY DEF TypeOK
<1>g. faults \in Nat
  BY DEF TypeOK
<1>h. faults' = 0 /\ buffer'[q] # <<>> /\ phase'[q] \in {"flushing", "sealing", "done"}
  BY DEF Ended
<1>j. \A p \in Runs : phase[p] # "unused" /\ key[p] = key'[q] => p <= q /\ ~LeftBehind(p)
  <2>1. SUFFICES ASSUME NEW p \in Runs, phase[p] # "unused", key[p] = key'[q]
                 PROVE  p <= q /\ ~LeftBehind(p)
    OBVIOUS
  <2>2. phase'[p] # "unused" /\ key'[p] = key[p]
    BY <2>1, UsedSteps DEF ReplayInv, IInv, RegInv
  <2>3. p <= q /\ ~LeftBehind(p)'
    BY <2>1, <2>2 DEF Undisturbed, Used
  <2>. QED
    BY <2>3, CancelsGrow
<1>k. /\ faults = 0 /\ phase[q] \in {"flushing", "sealing", "done"}
        => buffer'[q] = buffer[q] /\ key'[q] = key[q]
      /\ faults = 0 /\ phase[q] \in {"flushing", "sealing", "done"}
        => Durable(q) \/ \E w \in writes : w.run = q /\ w.final
  <2>1. SUFFICES ASSUME faults = 0, phase[q] \in {"flushing", "sealing", "done"}
                 PROVE  /\ buffer'[q] = buffer[q] /\ key'[q] = key[q]
                        /\ Durable(q) \/ \E w \in writes : w.run = q /\ w.final
    OBVIOUS
  <2>2. buffer'[q] = buffer[q] /\ key'[q] = key[q]
    BY <1>d, <2>1, BufferSteps
  <2>3. Ended(q) /\ Undisturbed(q)
    BY <1>h, <1>j, <2>1, <2>2 DEF Ended, Undisturbed, Used
  <2>. QED
    BY <2>1, <2>2, <2>3 DEF EndedIsDurable
<1>a. faults = 0 /\ phase[q] \in {"flushing", "sealing", "done"}
        /\ disk'[key[q]] = disk[key[q]] /\ writes \subseteq writes' => Goal
  BY <1>k DEF Durable
<1>1. ASSUME NEW c \in Clients, NEW k \in Keys,
             NEW op \in {"attaching", "starting", "stopping"}, Call(c, op, k)
      PROVE  Goal
  BY <1>1, <1>a, <1>e, <1>f, <1>h, <1>i, VariableTypes DEF Call, runVars,
     diskVars
<1>2. ASSUME NEW c \in Clients, NEW k \in Keys, Attach(c, k)
      PROVE  Goal
  BY <1>2, <1>a, <1>e, <1>f, <1>h, <1>i, VariableTypes DEF Attach, Subscribe,
     diskVars, budgets
<1>3. ASSUME NEW c \in Clients, NEW k \in Keys, AttachMisses(c, k)
      PROVE  Goal
  BY <1>3, <1>a, <1>e, <1>f, <1>h, <1>i, VariableTypes DEF AttachMisses,
     runVars, diskVars, budgets
<1>4. ASSUME NEW c \in Clients, NEW k \in Keys, Join(c, k)
      PROVE  Goal
  BY <1>4, <1>a, <1>e, <1>f, <1>h, <1>i, VariableTypes DEF Join, Subscribe,
     diskVars, budgets
<1>5. ASSUME NEW c \in Clients, NEW k \in Keys, Start(c, k)
      PROVE  Goal
  BY <1>5, <1>a, <1>e, <1>f, <1>h, <1>i, VariableTypes DEF Start, diskVars,
     budgets, Used
<1>6. ASSUME NEW c \in Clients, NEW k \in Keys, Stop(c, k)
      PROVE  Goal
  BY <1>6, <1>a, <1>e, <1>f, <1>h, <1>i, VariableTypes DEF Stop, diskVars
<1>7. ASSUME NEW c \in Clients, ReadReplay(c)
      PROVE  Goal
  BY <1>7, <1>a, <1>e, <1>f, <1>h, <1>i, VariableTypes DEF ReadReplay, runVars,
     diskVars, budgets
<1>8. ASSUME NEW c \in Clients, ReadNothing(c)
      PROVE  Goal
  BY <1>8, <1>a, <1>e, <1>f, <1>h, <1>i, VariableTypes DEF ReadNothing,
     runVars, diskVars, budgets
<1>9. ASSUME NEW c \in Clients, ReadExpired(c)
      PROVE  Goal
  BY <1>9, <1>a, <1>e, <1>f, <1>h, <1>i, VariableTypes DEF ReadExpired,
     runVars, diskVars, budgets
<1>10. ASSUME NEW c \in Clients, UnlinkExpired(c)
      PROVE  Goal
  BY <1>10, <1>a, <1>e, <1>f, <1>h, <1>i, VariableTypes DEF UnlinkExpired,
     runVars, budgets
<1>11. ASSUME NEW c \in Clients, DeleteReplay(c)
      PROVE  Goal
  <2>1. /\ disk' = [disk EXCEPT ![target[c]] = NoFile]
        /\ phase' = [phase EXCEPT ![from[c]] = "created"]
        /\ at[c] = "deleting" /\ key' = key /\ faults' = faults /\ writes' = writes
    BY <1>11 DEF DeleteReplay, budgets
  <2>2. q # from[c] /\ phase[q] \in {"flushing", "sealing", "done"}
    BY <1>e, <1>h, <2>1, VariableTypes
  <2>3. target[c] # key[q]
    <3>1. SUFFICES ASSUME target[c] = key[q]
                   PROVE  FALSE
      OBVIOUS
    <3>2. q <= from[c]
      BY <1>d, <1>e, <2>1, <2>2, <3>1, VariableTypes DEF Runs
    <3>3. from[c] <= q
      BY <1>e, <1>j, <2>1, <3>1
    <3>. QED
      BY <1>e, <2>1, <2>2, <3>2, <3>3 DEF Runs
  <2>4. disk'[key[q]] = disk[key[q]]
    BY <1>f, <2>1, <2>3, VariableTypes
  <2>. QED
    BY <1>a, <1>h, <2>1, <2>2, <2>4
<1>12. ASSUME NEW c \in Clients, DeleteFails(c)
      PROVE  Goal
  <2>1. faults' = faults + 1
    BY <1>12 DEF DeleteFails
  <2>. QED
    BY <1>g, <1>h, <2>1
<1>13. ASSUME NEW c \in Clients, Leave(c)
      PROVE  Goal
  BY <1>13, <1>a, <1>e, <1>f, <1>h, <1>i, VariableTypes DEF Leave, runVars,
     diskVars, budgets
<1>14. ASSUME NEW c \in Clients, Detach(c)
      PROVE  Goal
  BY <1>14, <1>a, <1>e, <1>f, <1>h, <1>i, VariableTypes DEF Detach, diskVars,
     budgets
<1>15. ASSUME NEW c \in Clients, StopReturns(c)
      PROVE  Goal
  BY <1>15, <1>a, <1>e, <1>f, <1>h, <1>i, VariableTypes DEF StopReturns,
     runVars, diskVars, budgets
<1>16. ASSUME NEW r \in Runs, Block(r)
      PROVE  Goal
  BY <1>16, <1>a, <1>e, <1>f, <1>h, <1>i, VariableTypes DEF Block, diskVars,
     budgets
<1>17. ASSUME NEW r \in Runs, Enter(r)
      PROVE  Goal
  BY <1>17, <1>a, <1>e, <1>f, <1>h, <1>i, VariableTypes DEF Enter, diskVars,
     budgets
<1>18. ASSUME NEW r \in Runs, Emit(r)
      PROVE  Goal
  <2>1. /\ disk' = disk /\ faults' = faults /\ writes \subseteq writes'
        /\ phase'[r] \in {"persisting", "streaming"}
        /\ \A p \in Runs : p # r => phase'[p] = phase[p]
    BY <1>18, VariableTypes DEF Emit, budgets
  <2>. QED
    BY <1>a, <1>h, <2>1
<1>19. ASSUME NEW r \in Runs, StreamEnds(r)
      PROVE  Goal
  BY <1>19, <1>a, <1>e, <1>f, <1>h, <1>i, VariableTypes DEF StreamEnds,
     diskVars, budgets
<1>20. ASSUME NEW r \in Runs, StreamRaises(r)
      PROVE  Goal
  <2>1. faults' = faults + 1
    BY <1>20 DEF StreamRaises
  <2>. QED
    BY <1>g, <1>h, <2>1
<1>21. ASSUME NEW r \in Runs, ReportError(r)
      PROVE  Goal
  BY <1>21, <1>a, <1>e, <1>f, <1>h, <1>i, VariableTypes DEF ReportError,
     diskVars, budgets
<1>22. ASSUME NEW r \in Runs, Finalise(r)
      PROVE  Goal
  <2>1. /\ disk' = disk /\ faults' = faults /\ buffer' = buffer /\ key' = key
        /\ writes \subseteq writes' /\ phase[r] = "finishing"
        /\ \A p \in Runs : p # r => phase'[p] = phase[p]
        /\ buffer[r] # <<>> => Snapshot(r, buffer[r], TRUE) \in writes'
    BY <1>22, VariableTypes DEF Finalise, budgets
  <2>2. CASE q = r
    BY <1>h, <2>1, <2>2 DEF Snapshot
  <2>3. CASE q # r
    BY <1>a, <1>h, <2>1, <2>3
  <2>. QED
    BY <2>2, <2>3
<1>23. ASSUME NEW r \in Runs, RaiseCancelled(r) \/ GiveUpWrite(r)
      PROVE  Goal
  <2>1. RaiseCancelled(r)
    BY <1>23, <1>g, <1>h DEF GiveUpWrite
  <2>2. disk' = disk /\ writes' = writes /\ faults' = faults
    BY <2>1 DEF RaiseCancelled, diskVars, budgets
  <2>3. phase[q] \in {"flushing", "sealing", "done"}
    BY <1>23, <1>h, CancelledPhases
  <2>. QED
    BY <1>a, <1>h, <2>2, <2>3
<1>24. ASSUME NEW w \in writes, WriteLands(w) \/ WriteFails(w)
      PROVE  Goal
  <2>1. WriteLands(w)
    BY <1>24, <1>g, <1>h DEF WriteFails
  <2>2. /\ disk' = [disk EXCEPT ![key[w.run]] = [run |-> w.run, events |-> w.events]]
        /\ writes' = writes \ {w} /\ key' = key /\ faults' = faults /\ buffer' = buffer
        /\ w.run \in Runs
    BY <2>1, VariableTypes DEF WriteLands, budgets
  <2>3. phase[q] \in {"flushing", "sealing", "done"}
    BY <1>24, <1>h, WrittenPhases
  <2>4. CASE key[w.run] = key[q]
    <3>1. phase[w.run] # "unused"
      <4>1. LeftBehind(w.run) => phase[w.run] # "unused"
        BY <2>2 DEF ReplayInv, DrainsOnceCancelled, LeftBehind
      <4>. QED
        BY <4>1, <1>c DEF Attended
    <3>2. ~LeftBehind(w.run) /\ w.run <= q
      BY <1>j, <2>2, <2>4, <3>1
    <3>3. w.run = q
      BY <1>c, <1>d, <2>2, <2>3, <2>4, <3>2 DEF Runs
    <3>4. w.events = buffer[q]
      BY <1>c, <2>3, <3>2, <3>3 DEF Attended
    <3>. QED
      BY <1>f, <2>2, <3>3, <3>4, VariableTypes DEF Durable
  <2>5. CASE key[w.run] # key[q]
    <3>1. disk'[key[q]] = disk[key[q]]
      BY <1>f, <2>2, <2>5, VariableTypes
    <3>2. \A v \in writes : v.run = q => v \in writes'
      BY <2>2, <2>5
    <3>. QED
      BY <1>h, <1>k, <2>2, <2>3, <3>1, <3>2 DEF Durable
  <2>. QED
    BY <2>4, <2>5
<1>26. ASSUME NEW k \in Keys, PruneReplay(k)
      PROVE  Goal
  BY <1>26, <1>a, <1>e, <1>f, <1>h, <1>i, VariableTypes DEF PruneReplay,
     runVars, budgets
<1>27. ASSUME GetStatus
      PROVE  Goal
  BY <1>27, <1>a, <1>e, <1>f, <1>h, <1>i, VariableTypes DEF GetStatus, runVars,
     diskVars, budgets
<1>28. ASSUME Crash
      PROVE  Goal
  <2>1. /\ phase[q] = "done" /\ disk' = disk /\ faults' = faults /\ key' = key
        /\ buffer' = buffer
    BY <1>28, <1>h, VariableTypes DEF Crash, Done, Finished
  <2>2. ~LeftBehind(q)
    BY <1>j, <2>1
  <2>3. \A w \in writes : w.run # q
    BY <1>c, <2>1, <2>2 DEF Attended
  <2>. QED
    BY <1>h, <1>k, <2>1, <2>3 DEF Durable
<1>. QED
  BY <1>1, <1>2, <1>3, <1>4, <1>5, <1>6, <1>7, <1>8, <1>9, <1>10, <1>11, <1>12,
     <1>13, <1>14, <1>15, <1>16, <1>17, <1>18, <1>19, <1>20, <1>21, <1>22,
     <1>23, <1>24, <1>26, <1>27, <1>28 DEF Next, ClientSteps, RunSteps

\* The replay invariant holds initially: nothing runs and no file is there.
LEMMA InitReplayInv == Init => ReplayInv
<1>. SUFFICES ASSUME Init PROVE ReplayInv
  OBVIOUS
<1>1. UsedIsPrefix /\ NewestRegistered /\ DrainsOnceCancelled
  BY DEF Init, UsedIsPrefix, NewestRegistered, DrainsOnceCancelled, Used
<1>2. DeletesOwnFile /\ WritesAttended
  BY DEF Init, DeletesOwnFile, WritesAttended
<1>3. NoStaleReplay /\ EndedIsDurable
  BY DEF Init, NoStaleReplay, EndedIsDurable, Started, Ended
<1>. QED
  BY InitIInv, <1>1, <1>2, <1>3 DEF ReplayInv

\* Every step keeps it.
LEMMA ReplayInvStep ==
    ASSUME ReplayInv, [Next]_vars
    PROVE  ReplayInv'
<1>1. CASE Next
  <2>1. /\ IInv' /\ TypeOK /\ TypeOK' /\ DeletingHolds /\ UsedIsPrefix
        /\ NewestRegistered /\ DeletesOwnFile /\ DrainsOnceCancelled /\ WritesAttended
    BY <1>1, TypeStep, RegistryStep DEF ReplayInv, IInv, RegInv
  <2>2. UsedIsPrefix'
    BY <1>1, <2>1, UsedIsPrefixStep
  <2>3. NewestRegistered'
    BY <1>1, <2>1, NewestRegisteredStep DEF NewestRegistered, Used
  <2>4. DeletesOwnFile'
    BY <1>1, <2>1, DeletesOwnFileStep DEF DeletesOwnFile
  <2>5. DrainsOnceCancelled'
    BY <1>1, <2>1, DrainsOnceCancelledStep DEF DrainsOnceCancelled
  <2>6. WritesAttended'
    <3>1. \A w \in writes' : w.run \in Runs
      BY <2>1 DEF TypeOK
    <3>. QED
      BY <1>1, <2>1, <3>1, WritesAttendedStep DEF WritesAttended
  <2>7. NoStaleReplay'
    BY <1>1, NoStaleReplayStep DEF NoStaleReplay, LeftBehind
  <2>8. EndedIsDurable'
    BY <1>1, EndedIsDurableStep DEF EndedIsDurable
  <2>. QED
    BY <2>1, <2>2, <2>3, <2>4, <2>5, <2>6, <2>7, <2>8 DEF ReplayInv
<1>2. CASE UNCHANGED vars
  <2>1. IInv'
    BY <1>2, StutterIInv DEF ReplayInv
  <2>2. UsedIsPrefix' /\ NewestRegistered' /\ DeletesOwnFile' /\ DrainsOnceCancelled'
    BY <1>2 DEF ReplayInv, vars, UsedIsPrefix, NewestRegistered, DeletesOwnFile,
       DrainsOnceCancelled, Used
  <2>3. WritesAttended' /\ NoStaleReplay'
    BY <1>2 DEF ReplayInv, vars, WritesAttended, Attended, LeftBehind, NoStaleReplay, Started
  <2>4. EndedIsDurable'
    BY <1>2 DEF ReplayInv, vars, EndedIsDurable, Ended, Undisturbed, Durable,
       LeftBehind, Used
  <2>. QED
    BY <2>1, <2>2, <2>3, <2>4 DEF ReplayInv
<1>. QED
  BY <1>1, <1>2

\* The replay invariant holds in every reachable state.
THEOREM ReplayInvariance == Spec => []ReplayInv
<1>1. ReplayInv /\ [Next]_vars => ReplayInv'
  BY ReplayInvStep
<1>. QED
  BY InitReplayInv, <1>1, PTL DEF Spec

\* A chat's replay file is never older than a run that was started for it,
\* whatever is stopped, fails, is disconnected or restarted; unless it is the
\* write of a run that was cancelled twice, which may land late.
THEOREM ReplayIsNeverStale == Spec => []NoStaleReplay
<1>1. ReplayInv => NoStaleReplay
  BY DEF ReplayInv
<1>. QED
  BY ReplayInvariance, <1>1, PTL

\* As long as no file operation has failed, the newest run of a chat that got
\* to its end is on disk with its whole buffer, stopped or not; unless a run of
\* the chat was cancelled twice.
THEOREM CompletedRunsAreDurable == Spec => []ReplayIsDurable
<1>1. ReplayInv => ReplayIsDurable
  <2>1. SUFFICES ASSUME ReplayInv, faults = 0, ~TTLElapses, NEW r \in Runs,
                        phase[r] = "done", buffer[r] # <<>>,
                        \A q \in Used : key[q] = key[r] => q <= r /\ ~LeftBehind(q)
                 PROVE  disk[key[r]] = [run |-> r, events |-> buffer[r]]
    BY DEF ReplayIsDurable
  <2>2. Durable(r) \/ \E w \in writes : w.run = r /\ w.final
    BY <2>1 DEF ReplayInv, EndedIsDurable, Ended, Undisturbed
  <2>3. ~LeftBehind(r)
    BY <2>1 DEF ReplayInv, IInv, RegInv, TypeOK, Used
  <2>4. \A w \in writes : w.run # r
    BY <2>1, <2>3 DEF ReplayInv, WritesAttended, Attended
  <2>. QED
    BY <2>2, <2>4 DEF Durable
<1>. QED
  BY ReplayInvariance, <1>1, PTL
=============================================================================
