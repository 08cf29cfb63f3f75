------------------------- MODULE TaskTrackerProofs -------------------------
(***************************************************************************)
(* Proofs about TaskTracker for every set of chats and clients and every   *)
(* bound: type correctness, that a live run is always the registered run   *)
(* of its chat, and which completed runs the registry keeps.               *)
(***************************************************************************)
EXTENDS TaskTracker, SequenceTheorems, FiniteSetTheorems, TLAPS

\* The buffer stays within its cap until the error event is appended.
BufferShort ==
    \A r \in Runs :
        phase[r] \in {"unused", "placeholder", "stuck", "created", "entering",
                      "streaming", "emitting", "persisting", "erroring"}
          => Len(buffer[r]) <= BufferCap

\* Only the holder of the lock deletes, and its run is still a placeholder.
DeletingHolds ==
    \A c \in Clients :
        at[c] = "deleting" => /\ holder = c
                              /\ from[c] \in Runs
                              /\ phase[from[c]] = "placeholder"

\* A registered run has been started, for the key it is registered under.
RegisteredIsUsed ==
    \A k \in Keys : runs[k] # 0 => phase[runs[k]] # "unused" /\ key[runs[k]] = k

RegInv == BufferShort /\ DeletingHolds /\ RegisteredIsUsed /\ LiveRunIsRegistered

\* The inductive invariant.
IInv == TypeOK /\ RegInv

\* The lock's queue stays a queue of the same actors when one leaves it.
LEMMA WithoutType ==
    ASSUME NEW S, NEW s \in Seq(S), NEW a
    PROVE  Without(s, a) \in Seq(S)
<1>1. CASE \E i \in DOMAIN s : s[i] = a
  <2> DEFINE i == CHOOSE j \in DOMAIN s : s[j] = a
  <2>1. i \in 1..Len(s)
    BY <1>1
  <2>2. SubSeq(s, 1, i - 1) \in Seq(S) /\ SubSeq(s, i + 1, Len(s)) \in Seq(S)
    <3>1. \A j \in 1..Len(s) : s[j] \in S
      OBVIOUS
    <3> HIDE DEF i
    <3> QED
      BY <2>1, <3>1, SubSeqProperties
  <2>3. SubSeq(s, 1, i - 1) \o SubSeq(s, i + 1, Len(s)) \in Seq(S)
    <3> HIDE DEF i
    <3> QED
      BY <2>2, ConcatProperties
  <2> QED
    BY <1>1, <2>3 DEF Without
<1>2. CASE ~ \E i \in DOMAIN s : s[i] = a
  BY <1>2 DEF Without
<1> QED
  BY <1>1, <1>2

\* Serving the head of the queue leaves a queue.
LEMMA ServedType ==
    ASSUME TypeOK
    PROVE  Served \in Seq(Clients \cup Runs)
<1>1. waiters # <<>> => Tail(waiters) \in Seq(Clients \cup Runs)
  BY DEF TypeOK
<1> QED
  BY <1>1 DEF TypeOK, Served

\* So does joining the queue.
LEMMA QueuedType ==
    ASSUME TypeOK
    PROVE  /\ waiters \in Seq(Clients \cup Runs)
           /\ \A a \in Clients \cup Runs : Append(waiters, a) \in Seq(Clients \cup Runs)
<1>1. waiters \in Seq(Clients \cup Runs)
  BY DEF TypeOK
<1> QED
  BY <1>1

\* A purge forgets completed runs and nothing else.
LEMMA PurgeKeepsLive ==
    ASSUME TypeOK, NEW cut
    PROVE  /\ Purged(cut) \in [Keys -> Runs \cup {0}]
           /\ \A k \in Keys : \/ Purged(cut)[k] = runs[k]
                              \/ Purged(cut)[k] = 0 /\ runs[k] # 0 /\ Done(runs[k])
<1> DEFINE expired(k) == /\ runs[k] # 0 /\ Done(runs[k])
                         /\ retained[runs[k]] \in 1..cut
           completed  == {k \in Keys : runs[k] # 0 /\ Done(runs[k]) /\ ~expired(k)}
           excess(k)  == /\ k \in completed
                         /\ Cardinality({j \in completed : KeptLonger(runs[j], runs[k])})
                              >= MaxCompleted
<1>1. Purged(cut) = [k \in Keys |-> IF expired(k) \/ excess(k) THEN 0 ELSE runs[k]]
  BY DEF Purged
<1>2. \A k \in Keys : expired(k) \/ excess(k) => runs[k] # 0 /\ Done(runs[k])
  OBVIOUS
<1> HIDE DEF expired, excess
<1>3. Purged(cut) \in [Keys -> Runs \cup {0}]
  BY <1>1 DEF TypeOK
<1>4. ASSUME NEW k \in Keys
      PROVE  \/ Purged(cut)[k] = runs[k]
             \/ Purged(cut)[k] = 0 /\ runs[k] # 0 /\ Done(runs[k])
  BY <1>1, <1>2
<1> QED
  BY <1>3, <1>4

\* The key a finished request is reset to is a key.
LEMMA AnyKeyType == AnyKey \in Keys
BY IdsAssumption DEF AnyKey

\* A request that ends leaves its client's variables well typed.
LEMMA EndsType ==
    ASSUME TypeOK, NEW c \in Clients, Ends(c)
    PROVE  /\ at' \in [Clients -> Places] /\ target' \in [Clients -> Keys]
           /\ from' \in [Clients -> Runs \cup {0}]
           /\ queue' \in [Clients -> Seq(Int)]
BY AnyKeyType DEF Ends, Places, TypeOK

\* The newest event's number, and what trimming leaves of a buffer.
LEMMA EventType ==
    ASSUME TypeOK
    PROVE  /\ \A r \in Runs : LastEvent(r) \in Nat
           /\ \A r \in Runs, e \in Nat :
                /\ Append(buffer[r], e) \in Seq(Nat)
                /\ Trim(Append(buffer[r], e)) \in Seq(Nat)
                /\ Len(Trim(Append(buffer[r], e))) <= BufferCap
<1>1. ASSUME NEW r \in Runs
      PROVE  LastEvent(r) \in Nat
  <2>1. CASE buffer[r] = <<>>
    BY <2>1 DEF LastEvent
  <2>2. CASE buffer[r] # <<>>
    <3>1. buffer[r] \in Seq(Nat)
      BY DEF TypeOK
    <3>2. Len(buffer[r]) \in 1..Len(buffer[r])
      BY <2>2, <3>1, EmptySeq
    <3> QED
      BY <2>2, <3>1, <3>2, ElementOfSeq DEF LastEvent
  <2> QED
    BY <2>1, <2>2
<1>2. ASSUME NEW r \in Runs, NEW e \in Nat
      PROVE  /\ Append(buffer[r], e) \in Seq(Nat)
             /\ Trim(Append(buffer[r], e)) \in Seq(Nat)
             /\ Len(Trim(Append(buffer[r], e))) <= BufferCap
  <2> DEFINE s == Append(buffer[r], e)
  <2>1. s \in Seq(Nat)
    BY DEF TypeOK
  <2>2. BufferCap \in Nat \ {0}
    BY BoundsAssumption
  <2> HIDE DEF s
  <2>3. Len(s) \in Nat
    BY <2>1
  <2>4. CASE Len(s) > BufferCap
    <3> DEFINE m == Len(s) - BufferCap + 1
    <3>1. m \in Int /\ Len(s) \in Int /\ m >= 1
      BY <2>2, <2>3, <2>4
    <3>2. \A j \in m..Len(s) : s[j] \in Nat
      BY <2>1, <2>3, <3>1, ElementOfSeq
    <3>3. SubSeq(s, m, Len(s)) \in Seq(Nat)
      BY <3>1, <3>2, SubSeqProperties
    <3>4. Len(SubSeq(s, m, Len(s))) = IF m <= Len(s) THEN Len(s) - m + 1 ELSE 0
      BY <3>1, <3>2, SubSeqProperties
    <3>5. Len(SubSeq(s, m, Len(s))) <= BufferCap
      BY <3>1, <3>4, <2>2, <2>3
    <3> QED
      BY <2>1, <2>4, <3>3, <3>5 DEF Trim, s
  <2>5. CASE ~(Len(s) > BufferCap)
    BY <2>1, <2>2, <2>3, <2>5 DEF Trim, s
  <2> QED
    BY <2>4, <2>5
<1> QED
  BY <1>1, <1>2

\* A buffer can be put on a queue.
LEMMA BufferOfInts ==
    ASSUME TypeOK
    PROVE  \A r \in Runs : buffer[r] \in Seq(Int)
BY SeqMonotonic, Nat \subseteq Int DEF TypeOK

\* A broadcast leaves every client with a queue.
LEMMA BroadcastType ==
    ASSUME TypeOK, NEW r \in Runs, NEW item \in Int
    PROVE  Broadcast(r, item) \in [Clients -> Seq(Int)]
BY DEF TypeOK, Broadcast

\* How a cancellation moves a producer on.
CancelMoves(r, was, p, line) ==
    /\ phase[r] \in was /\ phase' = [phase EXCEPT ![r] = p] /\ waiters' = line

\* What it does: a producer that waits for a thread drains its write or leaves
\* it, one in its body goes to the finally block, one in there ends.
LEMMA CancelSteps ==
    ASSUME NEW r \in Runs, RaiseCancelled(r) \/ GiveUpWrite(r)
    PROVE  /\ cancelling[r] /\ phase[r] \in Producing
           /\ cancelling' = [cancelling EXCEPT ![r] = FALSE]
           /\ cancels' = [cancels EXCEPT ![r] = @ + 1]
           /\ UNCHANGED <<holder, runs, key, buffer, retained, subs, at, target,
                          from, queue, disk, stops, crashes>>
           /\ \/ CancelMoves(r, {"entering", "streaming", "emitting", "persisting",
                                 "draining", "erroring"},
                              "finishing", Append(waiters, r))
              \/ CancelMoves(r, {"created", "finishing"}, "killed", waiters)
              \/ CancelMoves(r, {"flushing", "sealing"}, "done", waiters)
              \/ CancelMoves(r, {"persisting"}, "draining", waiters)
              \/ CancelMoves(r, {"flushing"}, "sealing", waiters)
<1>1. /\ cancelling[r] /\ phase[r] \in Producing
      /\ cancelling' = [cancelling EXCEPT ![r] = FALSE]
      /\ cancels' = [cancels EXCEPT ![r] = @ + 1]
      /\ UNCHANGED <<holder, runs, key, buffer, retained, subs, at, target,
                     from, queue, disk, stops, crashes>>
  BY DEF RaiseCancelled, GiveUpWrite, Producing, clientVars, diskVars, budgets
<1>2. ASSUME phase' = [phase EXCEPT ![r] = Unwound(r)],
             waiters' = IF Unwound(r) = "finishing" THEN Append(waiters, r) ELSE waiters
      PROVE  \/ CancelMoves(r, {"entering", "streaming", "emitting", "persisting",
                               "draining", "erroring"},
                            "finishing", Append(waiters, r))
             \/ CancelMoves(r, {"created", "finishing"}, "killed", waiters)
             \/ CancelMoves(r, {"flushing", "sealing"}, "done", waiters)
  BY <1>1, <1>2 DEF Unwound, CancelMoves, Producing
<1>3. \/ /\ phase' = [phase EXCEPT ![r] = Unwound(r)]
         /\ waiters' = IF Unwound(r) = "finishing" THEN Append(waiters, r) ELSE waiters
      \/ CancelMoves(r, {"persisting"}, "draining", waiters)
      \/ CancelMoves(r, {"flushing"}, "sealing", waiters)
  BY <1>1 DEF RaiseCancelled, GiveUpWrite, CancelMoves
<1> QED
  BY <1>1, <1>2, <1>3

\* How the end of a write moves the producer on that waits for it.
WriteMoves(w, was, p, line) ==
    /\ Awaited(w) /\ phase[w.run] \in was
    /\ phase' = [phase EXCEPT ![w.run] = p] /\ waiters' = line

\* What it does.
LEMMA WriteSteps ==
    ASSUME NEW w, WriteLands(w) \/ WriteFails(w)
    PROVE  /\ writes' = writes \ {w}
           /\ UNCHANGED <<holder, runs, key, cancelling, cancels, buffer, retained,
                          subs, at, target, from, queue, stops, crashes>>
           /\ \/ ~Awaited(w) /\ UNCHANGED <<phase, waiters>>
              \/ WriteMoves(w, {"flushing", "sealing"}, "done", waiters)
              \/ WriteMoves(w, {"persisting"}, "streaming", waiters)
              \/ WriteMoves(w, {"persisting"}, "erroring", Append(waiters, w.run))
              \/ WriteMoves(w, {"draining"}, "finishing", Append(waiters, w.run))
<1>1. /\ writes' = writes \ {w}
      /\ UNCHANGED <<holder, runs, key, cancelling, cancels, buffer, retained,
                     subs, at, target, from, queue, stops, crashes>>
  BY DEF WriteLands, WriteFails, clientVars, budgets
<1>2. PICK next \in {"streaming", "erroring"} : GoesOn(w, next)
  BY DEF WriteLands, WriteFails
<1>3. CASE ~Awaited(w)
  BY <1>1, <1>2, <1>3 DEF GoesOn
<1>4. CASE Awaited(w) /\ w.final
  <2>1. phase' = [phase EXCEPT ![w.run] = "done"] /\ waiters' = waiters
    BY <1>2, <1>4 DEF GoesOn
  <2>2. phase[w.run] \in {"flushing", "sealing"}
    BY <1>4 DEF Awaited
  <2> QED
    BY <1>1, <1>4, <2>1, <2>2 DEF WriteMoves
<1>5. CASE Awaited(w) /\ ~w.final
  <2>1. phase[w.run] = "persisting" \/ phase[w.run] = "draining"
    BY <1>5 DEF Awaited
  <2>2. CASE phase[w.run] = "persisting"
    <3>1. /\ phase' = [phase EXCEPT ![w.run] = next]
          /\ waiters' = IF next = "erroring" THEN Append(waiters, w.run) ELSE waiters
      BY <1>2, <1>5, <2>2 DEF GoesOn
    <3> QED
      BY <1>1, <1>5, <2>2, <3>1 DEF WriteMoves
  <2>3. CASE phase[w.run] = "draining"
    <3>1. /\ phase' = [phase EXCEPT ![w.run] = "finishing"]
          /\ waiters' = Append(waiters, w.run)
      BY <1>2, <1>5, <2>3 DEF GoesOn
    <3> QED
      BY <1>1, <1>5, <2>3, <3>1 DEF WriteMoves
  <2> QED
    BY <2>1, <2>2, <2>3
<1> QED
  BY <1>3, <1>4, <1>5

\* Every step keeps the types.
LEMMA TypeStep ==
    ASSUME TypeOK, BufferShort, DeletingHolds, Next
    PROVE  TypeOK'
<1>1. ASSUME NEW c \in Clients, NEW k \in Keys,
             NEW op \in {"attaching", "starting", "stopping"}, Call(c, op, k)
      PROVE  TypeOK'
  BY <1>1 DEF Call, Waiting, Places, TypeOK, diskVars, budgets, runVars, clientVars,
     lockVars
<1>2. ASSUME NEW c \in Clients, NEW k \in Keys, Attach(c, k)
      PROVE  TypeOK'
  <2>1. PICK cut \in Cuts :
          /\ runs' = Purged(cut)
          /\ runs'[k] # 0
          /\ Subscribe(c, k, runs'[k],
                       buffer[runs'[k]] \o <<REPLAY_END>>
                         \o (IF Done(runs'[k]) THEN <<SENTINEL>> ELSE <<>>))
    BY <1>2 DEF Attach
  <2>2. runs' \in [Keys -> Runs \cup {0}] /\ runs'[k] \in Runs
    BY <2>1, PurgeKeepsLive
  <2>3. buffer[runs'[k]] \o <<REPLAY_END>> \in Seq(Int)
    BY <2>2, BufferOfInts, ConcatProperties DEF REPLAY_END
  <2>4. (IF Done(runs'[k]) THEN <<SENTINEL>> ELSE <<>>) \in Seq(Int)
    BY DEF SENTINEL
  <2>5. buffer[runs'[k]] \o <<REPLAY_END>>
          \o (IF Done(runs'[k]) THEN <<SENTINEL>> ELSE <<>>) \in Seq(Int)
    BY <2>3, <2>4, ConcatProperties
  <2>6. /\ subs' \in [Runs -> SUBSET Clients] /\ at' \in [Clients -> Places]
        /\ target' \in [Clients -> Keys] /\ from' \in [Clients -> Runs \cup {0}]
        /\ queue' \in [Clients -> Seq(Int)]
    BY <2>1, <2>2, <2>5 DEF Subscribe, TypeOK, Places
  <2>7. waiters' \in Seq(Clients \cup Runs)
    BY <1>2, ServedType DEF Attach
  <2> QED
    BY <1>2, <2>2, <2>6, <2>7 DEF Attach, TypeOK, diskVars, budgets, runVars,
       clientVars, lockVars
<1>3. ASSUME NEW c \in Clients, NEW k \in Keys, AttachMisses(c, k)
      PROVE  TypeOK'
  BY ServedType, PurgeKeepsLive, <1>3 DEF AttachMisses, Places, TypeOK, diskVars,
     budgets, runVars, clientVars, lockVars
<1>4. ASSUME NEW c \in Clients, NEW k \in Keys, Join(c, k)
      PROVE  TypeOK'
  <2>1. PICK cut \in Cuts : /\ runs' = Purged(cut) /\ runs'[k] # 0
                            /\ Subscribe(c, k, runs'[k], buffer[runs'[k]])
    BY <1>4 DEF Join
  <2>2. runs' \in [Keys -> Runs \cup {0}] /\ runs'[k] \in Runs
    BY <2>1, PurgeKeepsLive
  <2>3. /\ subs' \in [Runs -> SUBSET Clients] /\ at' \in [Clients -> Places]
        /\ target' \in [Clients -> Keys] /\ from' \in [Clients -> Runs \cup {0}]
        /\ queue' \in [Clients -> Seq(Int)]
    BY <2>1, <2>2, BufferOfInts DEF Subscribe, TypeOK, Places
  <2>4. waiters' \in Seq(Clients \cup Runs)
    BY <1>4, ServedType DEF Join
  <2> QED
    BY <1>4, <2>2, <2>3, <2>4 DEF Join, TypeOK, diskVars, budgets, runVars, clientVars,
       lockVars
<1>5. ASSUME NEW c \in Clients, NEW k \in Keys, Start(c, k)
      PROVE  TypeOK'
  <2>1. PICK r \in Runs \ Used :
          /\ \E cut \in Cuts : runs' = [Purged(cut) EXCEPT ![k] = r]
          /\ key' = [key EXCEPT ![r] = k]
          /\ phase' = [phase EXCEPT ![r] = "placeholder"]
          /\ subs' = [subs EXCEPT ![r] = {c}]
          /\ from' = [from EXCEPT ![c] = r]
    BY <1>5 DEF Start
  <2>2. runs' \in [Keys -> Runs \cup {0}]
    BY <2>1, PurgeKeepsLive
  <2>3. /\ key' \in [Runs -> Keys] /\ phase' \in [Runs -> Phases]
        /\ subs' \in [Runs -> SUBSET Clients] /\ from' \in [Clients -> Runs \cup {0}]
    BY <2>1 DEF TypeOK, Phases
  <2>4. waiters' \in Seq(Clients \cup Runs)
    BY <1>5, ServedType DEF Start
  <2>5. /\ at' \in [Clients -> Places] /\ target' \in [Clients -> Keys]
        /\ queue' \in [Clients -> Seq(Int)] /\ holder' \in Clients \cup {Nobody}
    BY <1>5 DEF Start, TypeOK, Places
  <2> QED
    BY <1>5, <2>2, <2>3, <2>4, <2>5 DEF Start, TypeOK, diskVars, budgets, runVars,
       clientVars, lockVars
<1>6. ASSUME NEW c \in Clients, NEW k \in Keys, Stop(c, k)
      PROVE  TypeOK'
  <2>1. /\ stops' \in Nat
        /\ UNCHANGED <<holder, runs, key, cancels, buffer, retained, subs, diskVars,
                      faults, crashes>>
    BY <1>6 DEF Stop, TypeOK
  <2>2. waiters' \in Seq(Clients \cup Runs)
    BY <1>6, ServedType, WithoutType DEF Stop
  <2>3. CASE Ends(c) /\ UNCHANGED <<phase, cancelling>>
    BY <2>1, <2>2, <2>3, EndsType DEF TypeOK, diskVars
  <2>4. CASE /\ runs[k] # 0
             /\ cancelling' = [cancelling EXCEPT ![runs[k]] = TRUE]
             /\ at' = [at EXCEPT ![c] = "awaiting"]
             /\ target' = [target EXCEPT ![c] = k]
             /\ from' = [from EXCEPT ![c] = runs[k]]
             /\ UNCHANGED <<phase, queue>>
    BY <2>1, <2>2, <2>4 DEF Places, TypeOK, diskVars, budgets, runVars, clientVars,
       lockVars
  <2>5. CASE /\ runs[k] # 0
             /\ phase' = [phase EXCEPT ![runs[k]] = "dropped"]
             /\ Ends(c) /\ UNCHANGED cancelling
    <3>1. phase' \in [Runs -> Phases]
      BY <2>5 DEF TypeOK, Phases, Finished
    <3> QED
      BY <2>1, <2>2, <2>5, <3>1, EndsType DEF TypeOK, diskVars
  <2> QED
    BY <1>6, <2>3, <2>4, <2>5 DEF Stop
<1>7. ASSUME NEW c \in Clients, ReadReplay(c)
      PROVE  TypeOK'
  <2> DEFINE f == disk[target[c]]
  <2>1. f.events \in Seq(Nat)
    BY <1>7 DEF ReadReplay, TypeOK
  <2>2. f.events \in Seq(Int)
    BY <2>1, SeqMonotonic, Nat \subseteq Int
  <2>3. <<REPLAY_END, SENTINEL>> \in Seq(Int)
    BY DEF REPLAY_END, SENTINEL
  <2>4. f.events \o <<REPLAY_END, SENTINEL>> \in Seq(Int)
    BY <2>2, <2>3, ConcatProperties
  <2> QED
    BY <1>7, <2>4 DEF ReadReplay, Places, TypeOK, diskVars, budgets, runVars,
       clientVars, lockVars
<1>8. ASSUME NEW c \in Clients, ReadNothing(c)
      PROVE  TypeOK'
  BY AnyKeyType, <1>8 DEF ReadNothing, Ends, Places, TypeOK, diskVars, budgets,
     runVars, clientVars, lockVars
<1>9. ASSUME NEW c \in Clients, ReadExpired(c)
      PROVE  TypeOK'
  BY <1>9 DEF ReadExpired, Places, TypeOK, diskVars, budgets, runVars, clientVars,
     lockVars
<1>10. ASSUME NEW c \in Clients, UnlinkExpired(c)
      PROVE  TypeOK'
  BY AnyKeyType, <1>10 DEF UnlinkExpired, Ends, Places, TypeOK, diskVars, budgets,
     runVars, clientVars, lockVars
<1>11. ASSUME NEW c \in Clients, DeleteReplay(c)
      PROVE  TypeOK'
  BY <1>11 DEF DeleteReplay, Places, Phases, Producing, TypeOK, diskVars, budgets,
     runVars, clientVars, lockVars
<1>12. ASSUME NEW c \in Clients, DeleteFails(c)
      PROVE  TypeOK'
  <2>1. phase' \in [Runs -> Phases]
    BY <1>12 DEF DeleteFails, TypeOK, Phases
  <2>2. /\ at' \in [Clients -> Places] /\ target' \in [Clients -> Keys]
        /\ from' \in [Clients -> Runs \cup {0}] /\ queue' \in [Clients -> Seq(Int)]
    BY <1>12, AnyKeyType DEF DeleteFails, Ends, TypeOK, Places
  <2>3. faults' \in Nat /\ holder' \in Clients \cup {Nobody}
    BY <1>12 DEF DeleteFails, TypeOK
  <2>4. disk' \in [Keys -> [run : Runs, events : Seq(Nat)] \cup {NoFile}]
    BY <1>12 DEF DeleteFails, TypeOK
  <2> QED
    BY <1>12, <2>1, <2>2, <2>3, <2>4 DEF DeleteFails, TypeOK, diskVars, budgets, runVars,
       clientVars, lockVars
<1>13. ASSUME NEW c \in Clients, Leave(c)
      PROVE  TypeOK'
  BY <1>13 DEF Leave, Places, Waiting, TypeOK, diskVars, budgets, runVars, clientVars,
     lockVars
<1>14. ASSUME NEW c \in Clients, Detach(c)
      PROVE  TypeOK'
  <2>1. subs' \in [Runs -> SUBSET Clients]
    BY <1>14 DEF Detach, TypeOK
  <2>2. waiters' \in Seq(Clients \cup Runs)
    BY <1>14, ServedType DEF Detach
  <2>3. Ends(c) /\ UNCHANGED <<holder, runs, key, phase, cancelling, cancels, buffer,
                               retained, diskVars, budgets>>
    BY <1>14 DEF Detach
  <2> QED
    BY <2>1, <2>2, <2>3, EndsType DEF TypeOK, diskVars, budgets
<1>15. ASSUME NEW c \in Clients, StopReturns(c)
      PROVE  TypeOK'
  BY AnyKeyType, <1>15 DEF StopReturns, Ends, Places, TypeOK, diskVars, budgets,
     runVars, clientVars, lockVars
<1>16. ASSUME NEW r \in Runs, Block(r)
      PROVE  TypeOK'
  <2>1. phase' \in [Runs -> Phases]
    BY <1>16 DEF Block, TypeOK, Phases, Producing
  <2>2. waiters' \in Seq(Clients \cup Runs)
    BY <1>16 DEF Block, TypeOK
  <2> QED
    BY <1>16, <2>1, <2>2 DEF Block, TypeOK, diskVars, budgets, runVars, clientVars,
       lockVars
<1>17. ASSUME NEW r \in Runs, Enter(r)
      PROVE  TypeOK'
  BY ServedType, <1>17 DEF Enter, Phases, Producing, TypeOK, diskVars, budgets,
     runVars, clientVars, lockVars
<1>18. ASSUME NEW r \in Runs, Emit(r)
      PROVE  TypeOK'
  <2> DEFINE e == LastEvent(r) + 1
             b == Trim(Append(buffer[r], e))
  <2>1. e \in Nat
    <3>1. LastEvent(r) \in Nat
      BY EventType
    <3> QED
      BY <3>1
  <2>2. b \in Seq(Nat) /\ Len(b) <= BufferCap
    BY <2>1, EventType
  <2> HIDE DEF e, b
  <2>3. buffer' = [buffer EXCEPT ![r] = b] /\ queue' = Broadcast(r, e)
    BY <1>18 DEF Emit, e, b
  <2>4. /\ buffer' \in [Runs -> Seq(Nat)]
        /\ \A q \in Runs : Len(buffer'[q]) <= BufferCap + 1
    BY <2>2, <2>3, BoundsAssumption DEF TypeOK
  <2>5. queue' \in [Clients -> Seq(Int)]
    BY <2>1, <2>3, BroadcastType
  <2>6. phase' \in [Runs -> Phases]
    BY <1>18 DEF Emit, TypeOK, Phases, Producing
  <2>7. writes' \subseteq [run : Runs, events : Seq(Nat), final : BOOLEAN]
    <3>1. Snapshot(r, buffer'[r], FALSE) \in [run : Runs, events : Seq(Nat), final : BOOLEAN]
      BY <2>4 DEF Snapshot
    <3>2. writes' = writes \cup {Snapshot(r, buffer'[r], FALSE)} \/ writes' = writes
      BY <1>18 DEF Emit
    <3> QED
      BY <3>1, <3>2 DEF TypeOK
  <2>8. waiters' \in Seq(Clients \cup Runs)
    BY <1>18, ServedType DEF Emit
  <2> QED
    BY <1>18, <2>4, <2>5, <2>6, <2>7, <2>8 DEF Emit, TypeOK, diskVars, budgets,
       runVars, clientVars, lockVars
<1>19. ASSUME NEW r \in Runs, StreamEnds(r)
      PROVE  TypeOK'
  BY <1>19 DEF StreamEnds, Phases, Producing, TypeOK, diskVars, budgets, runVars,
     clientVars, lockVars
<1>20. ASSUME NEW r \in Runs, StreamRaises(r)
      PROVE  TypeOK'
  BY <1>20 DEF StreamRaises, Phases, Producing, TypeOK, diskVars, budgets, runVars,
     clientVars, lockVars
<1>21. ASSUME NEW r \in Runs, ReportError(r)
      PROVE  TypeOK'
  <2> DEFINE e == LastEvent(r) + 1
  <2>1. e \in Nat
    <3>1. LastEvent(r) \in Nat
      BY EventType
    <3> QED
      BY <3>1
  <2>2. Append(buffer[r], e) \in Seq(Nat)
    BY <2>1, EventType
  <2>3. Len(buffer[r]) <= BufferCap /\ Len(Append(buffer[r], e)) = Len(buffer[r]) + 1
    BY <1>21 DEF ReportError, BufferShort, TypeOK
  <2> HIDE DEF e
  <2>4. buffer' = [buffer EXCEPT ![r] = Append(@, e)] /\ queue' = Broadcast(r, e)
    BY <1>21 DEF ReportError, e
  <2>5. /\ buffer' \in [Runs -> Seq(Nat)]
        /\ \A q \in Runs : Len(buffer'[q]) <= BufferCap + 1
    BY <2>2, <2>3, <2>4, BoundsAssumption DEF TypeOK
  <2>6. queue' \in [Clients -> Seq(Int)]
    BY <2>1, <2>4, BroadcastType
  <2>7. phase' \in [Runs -> Phases]
    BY <1>21 DEF ReportError, TypeOK, Phases, Producing
  <2>8. waiters' \in Seq(Clients \cup Runs)
    BY <1>21, ServedType DEF ReportError
  <2> QED
    BY <1>21, <2>5, <2>6, <2>7, <2>8 DEF ReportError, TypeOK, diskVars, budgets,
       runVars, clientVars, lockVars
<1>22. ASSUME NEW r \in Runs, Finalise(r)
      PROVE  TypeOK'
  <2>1. phase' \in [Runs -> Phases]
    BY <1>22 DEF Finalise, TypeOK, Phases, Producing, Finished
  <2>2. waiters' \in Seq(Clients \cup Runs)
    BY <1>22, ServedType DEF Finalise
  <2>3. queue' \in [Clients -> Seq(Int)]
    BY <1>22, BroadcastType DEF Finalise, SENTINEL
  <2>4. runs' \in [Keys -> Runs \cup {0}]
    BY <1>22, PurgeKeepsLive DEF Finalise
  <2>5. writes' \subseteq [run : Runs, events : Seq(Nat), final : BOOLEAN]
    <3>1. Snapshot(r, buffer[r], TRUE) \in [run : Runs, events : Seq(Nat), final : BOOLEAN]
      BY DEF Snapshot, TypeOK
    <3>2. writes' = writes \cup {Snapshot(r, buffer[r], TRUE)} \/ writes' = writes
      BY <1>22 DEF Finalise
    <3> QED
      BY <3>1, <3>2 DEF TypeOK
  <2>6. retained' \in [Runs -> Nat]
    <3>1. IsFiniteSet(Runs)
      BY FS_Interval, BoundsAssumption DEF Runs
    <3>2. Cardinality({q \in Runs : retained[q] # 0}) \in Nat
      BY <3>1, FS_Subset, FS_CardinalityType
    <3> QED
      BY <1>22, <3>2 DEF Finalise, TypeOK
  <2> QED
    BY <1>22, <2>1, <2>2, <2>3, <2>4, <2>5, <2>6 DEF Finalise, TypeOK, diskVars,
       budgets, runVars, clientVars, lockVars
<1>23. ASSUME NEW r \in Runs, RaiseCancelled(r) \/ GiveUpWrite(r)
      PROVE  TypeOK'
  <2>1. phase' \in [Runs -> Phases]
    <3>1. PICK p \in {"finishing", "killed", "done", "draining", "sealing"} :
            phase' = [phase EXCEPT ![r] = p]
      BY <1>23, CancelSteps DEF CancelMoves
    <3> QED
      BY <3>1 DEF TypeOK, Phases, Producing, Finished
  <2>2. waiters' \in Seq(Clients \cup Runs)
    <3>1. waiters' = waiters \/ waiters' = Append(waiters, r)
      BY <1>23, CancelSteps DEF CancelMoves
    <3> QED
      BY <3>1, QueuedType
  <2>3. cancelling' \in [Runs -> BOOLEAN] /\ cancels' \in [Runs -> Nat]
    <3>1. /\ cancelling' = [cancelling EXCEPT ![r] = FALSE]
          /\ cancels' = [cancels EXCEPT ![r] = @ + 1]
      BY <1>23, CancelSteps
    <3> QED
      BY <3>1 DEF TypeOK
  <2>4. faults' \in Nat /\ writes' \subseteq writes
    BY <1>23 DEF RaiseCancelled, GiveUpWrite, diskVars, budgets, TypeOK
  <2>5. UNCHANGED <<holder, runs, key, buffer, retained, subs, at, target, from,
                    queue, disk, stops, crashes>>
    BY <1>23, CancelSteps
  <2> HIDE <1>23
  <2> QED
    BY <2>1, <2>2, <2>3, <2>4, <2>5 DEF TypeOK
<1>24. ASSUME NEW w \in writes, WriteLands(w) \/ WriteFails(w)
      PROVE  TypeOK'
  <2>0. w.run \in Runs /\ w \in [run : Runs, events : Seq(Nat), final : BOOLEAN]
    BY DEF TypeOK
  <2>1. phase' \in [Runs -> Phases]
    BY <1>24, <2>0, WriteSteps DEF WriteMoves, TypeOK, Phases, Producing, Finished
  <2>2. waiters' \in Seq(Clients \cup Runs)
    <3>1. waiters' = waiters \/ waiters' = Append(waiters, w.run)
      BY <1>24, WriteSteps DEF WriteMoves
    <3> QED
      BY <2>0, <3>1, QueuedType
  <2>3. faults' \in Nat /\ writes' \subseteq writes
    BY <1>24 DEF WriteLands, WriteFails, budgets, TypeOK
  <2>4. disk' \in [Keys -> [run : Runs, events : Seq(Nat)] \cup {NoFile}]
    <3>1. [run |-> w.run, events |-> w.events] \in [run : Runs, events : Seq(Nat)]
      BY <2>0
    <3>2. \/ disk' = disk
          \/ disk' = [disk EXCEPT ![key[w.run]] = [run |-> w.run, events |-> w.events]]
      BY <1>24 DEF WriteLands, WriteFails
    <3> QED
      BY <3>1, <3>2 DEF TypeOK
  <2>5. UNCHANGED <<holder, runs, key, cancelling, cancels, buffer, retained, subs,
                    at, target, from, queue, stops, crashes>>
    BY <1>24, WriteSteps
  <2> HIDE <1>24
  <2> QED
    BY <2>1, <2>2, <2>3, <2>4, <2>5 DEF TypeOK
<1>26. ASSUME NEW k \in Keys, PruneReplay(k)
      PROVE  TypeOK'
  BY <1>26 DEF PruneReplay, TypeOK, diskVars, budgets, runVars, clientVars, lockVars
<1>27. ASSUME GetStatus
      PROVE  TypeOK'
  BY PurgeKeepsLive, <1>27 DEF GetStatus, TypeOK, diskVars, budgets, runVars,
     clientVars, lockVars
<1>28. ASSUME Crash
      PROVE  TypeOK'
  BY AnyKeyType, <1>28 DEF Crash, Phases, Finished, Places, TypeOK, diskVars, budgets,
     runVars, clientVars, lockVars
<1> QED
  BY <1>1, <1>2, <1>3, <1>4, <1>5, <1>6, <1>7, <1>8, <1>9, <1>10, <1>11, <1>12, <1>13,
     <1>14, <1>15, <1>16, <1>17, <1>18, <1>19, <1>20, <1>21, <1>22, <1>23, <1>24,
     <1>26, <1>27, <1>28 DEF Next, ClientSteps, RunSteps


\* What the registry argument needs of the types.
LEMMA RegistryTypes ==
    ASSUME TypeOK
    PROVE  /\ runs \in [Keys -> Runs \cup {0}] /\ key \in [Runs -> Keys]
           /\ phase \in [Runs -> Phases] /\ DOMAIN buffer = Runs
           /\ at \in [Clients -> Places] /\ from \in [Clients -> Runs \cup {0}]
           /\ target \in [Clients -> Keys]
           /\ \A w \in writes : w.run \in Runs
           /\ 0 \notin Runs /\ Nobody \notin Clients
BY BoundsAssumption, IdsAssumption DEF TypeOK, Runs

\* Every step keeps the registry in order.
LEMMA RegistryStep ==
    ASSUME TypeOK, RegInv, Next
    PROVE  RegInv'
<1>1. ASSUME NEW c \in Clients, NEW k \in Keys,
             NEW op \in {"attaching", "starting", "stopping"}, Call(c, op, k)
      PROVE  RegInv'
  BY <1>1, RegistryTypes DEF Call, RegInv, BufferShort, DeletingHolds,
     RegisteredIsUsed, LiveRunIsRegistered, Producing, Finished, Live, Done, runVars, clientVars, lockVars, diskVars, budgets
<1>2. ASSUME NEW c \in Clients, NEW k \in Keys, Attach(c, k)
      PROVE  RegInv'
  BY <1>2, RegistryTypes, PurgeKeepsLive DEF Attach, Subscribe, RegInv, BufferShort,
     DeletingHolds,
     RegisteredIsUsed, LiveRunIsRegistered, Producing, Finished, Live, Done, runVars, clientVars, lockVars, diskVars, budgets
<1>3. ASSUME NEW c \in Clients, NEW k \in Keys, AttachMisses(c, k)
      PROVE  RegInv'
  BY <1>3, RegistryTypes, PurgeKeepsLive DEF AttachMisses, RegInv, BufferShort,
     DeletingHolds,
     RegisteredIsUsed, LiveRunIsRegistered, Producing, Finished, Live, Done, runVars, clientVars, lockVars, diskVars, budgets
<1>4. ASSUME NEW c \in Clients, NEW k \in Keys, Join(c, k)
      PROVE  RegInv'
  BY <1>4, RegistryTypes, PurgeKeepsLive DEF Join, Subscribe, RegInv, BufferShort,
     DeletingHolds,
     RegisteredIsUsed, LiveRunIsRegistered, Producing, Finished, Live, Done, runVars, clientVars, lockVars, diskVars, budgets
<1>5. ASSUME NEW c \in Clients, NEW k \in Keys, Start(c, k)
      PROVE  RegInv'
  <2>1. PICK r \in Runs \ Used, cut \in Cuts :
          /\ Purged(cut)[k] # 0 => Done(runs[k])
          /\ runs' = [Purged(cut) EXCEPT ![k] = r]
          /\ key' = [key EXCEPT ![r] = k]
          /\ phase' = [phase EXCEPT ![r] = "placeholder"]
          /\ from' = [from EXCEPT ![c] = r]
    BY <1>5 DEF Start
  <2>2. phase[r] = "unused" /\ r \in Runs /\ r # 0
    BY <2>1, RegistryTypes DEF Used
  <2>3. /\ holder = Nobody /\ holder' = c
        /\ at' = [at EXCEPT ![c] = "deleting"]
        /\ buffer' = buffer
    BY <1>5 DEF Start, MyTurn
  <2>4. /\ Purged(cut) \in [Keys -> Runs \cup {0}]
        /\ \A j \in Keys : \/ Purged(cut)[j] = runs[j]
                           \/ Purged(cut)[j] = 0 /\ runs[j] # 0 /\ Done(runs[j])
    BY PurgeKeepsLive
  <2>5. BufferShort'
    BY <2>1, <2>2, <2>3, RegistryTypes DEF RegInv, BufferShort
  <2>6. DeletingHolds'
    BY <2>1, <2>2, <2>3, RegistryTypes DEF RegInv, DeletingHolds
  <2>7. RegisteredIsUsed'
    BY <2>1, <2>2, <2>4, RegistryTypes DEF RegInv, RegisteredIsUsed
  <2>8. ASSUME NEW q \in Runs, Live(q)'
        PROVE  (runs[key[q]] = q)'
    <3>1. CASE q = r
      BY <2>1, <2>2, <2>4, <3>1, RegistryTypes
    <3>2. CASE q # r
      <4>1. phase[q] = phase'[q] /\ key'[q] = key[q] /\ Live(q)
        BY <2>1, <2>8, <3>2, RegistryTypes DEF Live
      <4>2. runs[key[q]] = q /\ ~Done(q) /\ key[q] \in Keys
        BY <4>1, RegistryTypes DEF RegInv, LiveRunIsRegistered, Live, Done, Producing,
           Finished
      <4>3. Purged(cut)[key[q]] = q
        BY <2>4, <4>2
      <4>4. key[q] # k
        BY <2>1, <4>2, <4>3, RegistryTypes
      <4> QED
        BY <2>1, <2>4, <4>1, <4>2, <4>3, <4>4
    <3> QED
      BY <3>1, <3>2
  <2> QED
    BY <2>5, <2>6, <2>7, <2>8 DEF RegInv, LiveRunIsRegistered
<1>6. ASSUME NEW c \in Clients, NEW k \in Keys, Stop(c, k)
      PROVE  RegInv'
  BY <1>6, RegistryTypes DEF Stop, Ends, RegInv, BufferShort, DeletingHolds,
     RegisteredIsUsed, LiveRunIsRegistered, Producing, Finished, Live, Done, runVars, clientVars, lockVars, diskVars, budgets
<1>7. ASSUME NEW c \in Clients, ReadReplay(c)
      PROVE  RegInv'
  BY <1>7, RegistryTypes DEF ReadReplay, RegInv, BufferShort, DeletingHolds,
     RegisteredIsUsed, LiveRunIsRegistered, Producing, Finished, Live, Done, runVars, clientVars, lockVars, diskVars, budgets
<1>8. ASSUME NEW c \in Clients, ReadNothing(c)
      PROVE  RegInv'
  BY <1>8, RegistryTypes DEF ReadNothing, Ends, RegInv, BufferShort, DeletingHolds,
     RegisteredIsUsed, LiveRunIsRegistered, Producing, Finished, Live, Done, runVars, clientVars, lockVars, diskVars, budgets
<1>9. ASSUME NEW c \in Clients, ReadExpired(c)
      PROVE  RegInv'
  BY <1>9, RegistryTypes DEF ReadExpired, RegInv, BufferShort, DeletingHolds,
     RegisteredIsUsed, LiveRunIsRegistered, Producing, Finished, Live, Done, runVars, clientVars, lockVars, diskVars, budgets
<1>10. ASSUME NEW c \in Clients, UnlinkExpired(c)
      PROVE  RegInv'
  BY <1>10, RegistryTypes DEF UnlinkExpired, Ends, RegInv, BufferShort, DeletingHolds,
     RegisteredIsUsed, LiveRunIsRegistered, Producing, Finished, Live, Done, runVars, clientVars, lockVars, diskVars, budgets
<1>11. ASSUME NEW c \in Clients, DeleteReplay(c)
      PROVE  RegInv'
  BY <1>11, RegistryTypes DEF DeleteReplay, RegInv, BufferShort, DeletingHolds,
     RegisteredIsUsed, LiveRunIsRegistered, Producing, Finished, Live, Done, runVars, clientVars, lockVars, diskVars, budgets
<1>12. ASSUME NEW c \in Clients, DeleteFails(c)
      PROVE  RegInv'
  BY <1>12, RegistryTypes DEF DeleteFails, Ends, RegInv, BufferShort, DeletingHolds,
     RegisteredIsUsed, LiveRunIsRegistered, Producing, Finished, Live, Done, runVars, clientVars, lockVars, diskVars, budgets
<1>13. ASSUME NEW c \in Clients, Leave(c)
      PROVE  RegInv'
  BY <1>13, RegistryTypes DEF Leave, RegInv, BufferShort, DeletingHolds,
     RegisteredIsUsed, LiveRunIsRegistered, Producing, Finished, Live, Done, runVars, clientVars, lockVars, diskVars, budgets
<1>14. ASSUME NEW c \in Clients, Detach(c)
      PROVE  RegInv'
  BY <1>14, RegistryTypes DEF Detach, Ends, RegInv, BufferShort, DeletingHolds,
     RegisteredIsUsed, LiveRunIsRegistered, Producing, Finished, Live, Done, runVars, clientVars, lockVars, diskVars, budgets
<1>15. ASSUME NEW c \in Clients, StopReturns(c)
      PROVE  RegInv'
  BY <1>15, RegistryTypes DEF StopReturns, Ends, RegInv, BufferShort, DeletingHolds,
     RegisteredIsUsed, LiveRunIsRegistered, Producing, Finished, Live, Done, runVars, clientVars, lockVars, diskVars, budgets
<1>16. ASSUME NEW r \in Runs, Block(r)
      PROVE  RegInv'
  BY <1>16, RegistryTypes DEF Block, RegInv, BufferShort, DeletingHolds,
     RegisteredIsUsed, LiveRunIsRegistered, Producing, Finished, Live, Done, runVars, clientVars, lockVars, diskVars, budgets
<1>17. ASSUME NEW r \in Runs, Enter(r)
      PROVE  RegInv'
  BY <1>17, RegistryTypes DEF Enter, RegInv, BufferShort, DeletingHolds,
     RegisteredIsUsed, LiveRunIsRegistered, Producing, Finished, Live, Done, runVars, clientVars, lockVars, diskVars, budgets
<1>18. ASSUME NEW r \in Runs, Emit(r)
      PROVE  RegInv'
  <2> DEFINE b == Trim(Append(buffer[r], LastEvent(r) + 1))
  <2>1. Len(b) <= BufferCap
    <3>1. LastEvent(r) + 1 \in Nat
      <4>1. LastEvent(r) \in Nat
        BY EventType
      <4> QED
        BY <4>1
    <3> QED
      BY <3>1, EventType
  <2>2. buffer' = [buffer EXCEPT ![r] = b]
    BY <1>18 DEF Emit
  <2> HIDE DEF b
  <2>3. /\ phase[r] \in {"streaming", "emitting"}
        /\ \/ phase' = [phase EXCEPT ![r] = "persisting"]
           \/ phase' = [phase EXCEPT ![r] = "streaming"]
        /\ UNCHANGED <<holder, runs, key, at, from>>
    BY <1>18 DEF Emit
  <2>4. BufferShort'
    BY <2>1, <2>2, <2>3, RegistryTypes DEF RegInv, BufferShort
  <2>5. DeletingHolds' /\ RegisteredIsUsed' /\ LiveRunIsRegistered'
    BY <2>3, RegistryTypes DEF RegInv, BufferShort, DeletingHolds,
       RegisteredIsUsed, LiveRunIsRegistered, Producing, Finished, Live, Done
  <2> QED
    BY <2>4, <2>5 DEF RegInv
<1>19. ASSUME NEW r \in Runs, StreamEnds(r)
      PROVE  RegInv'
  BY <1>19, RegistryTypes DEF StreamEnds, Ends, RegInv, BufferShort, DeletingHolds,
     RegisteredIsUsed, LiveRunIsRegistered, Producing, Finished, Live, Done, runVars, clientVars, lockVars, diskVars, budgets
<1>20. ASSUME NEW r \in Runs, StreamRaises(r)
      PROVE  RegInv'
  BY <1>20, RegistryTypes DEF StreamRaises, RegInv, BufferShort, DeletingHolds,
     RegisteredIsUsed, LiveRunIsRegistered, Producing, Finished, Live, Done, runVars, clientVars, lockVars, diskVars, budgets
<1>21. ASSUME NEW r \in Runs, ReportError(r)
      PROVE  RegInv'
  BY <1>21, RegistryTypes DEF ReportError, RegInv, BufferShort, DeletingHolds,
     RegisteredIsUsed, LiveRunIsRegistered, Producing, Finished, Live, Done, runVars, clientVars, lockVars, diskVars, budgets
<1>22. ASSUME NEW r \in Runs, Finalise(r)
      PROVE  RegInv'
  BY <1>22, RegistryTypes, PurgeKeepsLive DEF Finalise, Snapshot, RegInv, BufferShort,
     DeletingHolds,
     RegisteredIsUsed, LiveRunIsRegistered, Producing, Finished, Live, Done, runVars, clientVars, lockVars, diskVars, budgets
<1>23. ASSUME NEW r \in Runs, RaiseCancelled(r) \/ GiveUpWrite(r)
      PROVE  RegInv'
  <2>1. PICK p \in {"finishing", "killed", "done", "draining", "sealing"} :
          phase' = [phase EXCEPT ![r] = p]
    BY <1>23, CancelSteps DEF CancelMoves
  <2>2. UNCHANGED <<holder, runs, key, buffer, at, from>> /\ phase[r] \in Producing
    BY <1>23, CancelSteps
  <2> HIDE <1>23
  <2> QED
    BY <2>1, <2>2, RegistryTypes DEF RegInv, BufferShort, DeletingHolds,
       RegisteredIsUsed, LiveRunIsRegistered, Producing, Finished, Live, Done
<1>24. ASSUME NEW w \in writes, WriteLands(w) \/ WriteFails(w)
      PROVE  RegInv'
  <2>1. w.run \in Runs
    BY RegistryTypes
  <2>2. \/ phase' = phase
        \/ /\ phase[w.run] \in {"flushing", "sealing"}
           /\ phase' = [phase EXCEPT ![w.run] = "done"]
        \/ /\ phase[w.run] = "persisting"
           /\ \/ phase' = [phase EXCEPT ![w.run] = "streaming"]
              \/ phase' = [phase EXCEPT ![w.run] = "erroring"]
        \/ /\ phase[w.run] = "draining"
           /\ phase' = [phase EXCEPT ![w.run] = "finishing"]
    BY <1>24, WriteSteps DEF WriteMoves
  <2>3. UNCHANGED <<holder, runs, key, buffer, at, from>>
    BY <1>24, WriteSteps
  <2> HIDE <1>24
  <2> QED
    BY <2>1, <2>2, <2>3, RegistryTypes DEF RegInv, BufferShort, DeletingHolds,
       RegisteredIsUsed, LiveRunIsRegistered, Producing, Finished, Live, Done
<1>26. ASSUME NEW k \in Keys, PruneReplay(k)
      PROVE  RegInv'
  BY <1>26, RegistryTypes DEF PruneReplay, RegInv, BufferShort, DeletingHolds,
     RegisteredIsUsed, LiveRunIsRegistered, Producing, Finished, Live, Done, runVars, clientVars, lockVars, diskVars, budgets
<1>27. ASSUME GetStatus
      PROVE  RegInv'
  BY <1>27, RegistryTypes, PurgeKeepsLive DEF GetStatus, RegInv, BufferShort,
     DeletingHolds,
     RegisteredIsUsed, LiveRunIsRegistered, Producing, Finished, Live, Done, runVars, clientVars, lockVars, diskVars, budgets
<1>28. ASSUME Crash
      PROVE  RegInv'
  BY <1>28, RegistryTypes DEF Crash, RegInv, BufferShort, DeletingHolds,
     RegisteredIsUsed, LiveRunIsRegistered, Producing, Finished, Live, Done, runVars, clientVars, lockVars, diskVars, budgets
<1> QED
  BY <1>1, <1>2, <1>3, <1>4, <1>5, <1>6, <1>7, <1>8, <1>9, <1>10, <1>11, <1>12, <1>13,
     <1>14, <1>15, <1>16, <1>17, <1>18, <1>19, <1>20, <1>21, <1>22, <1>23, <1>24,
     <1>26, <1>27, <1>28 DEF Next, ClientSteps, RunSteps

\* The initial state satisfies the invariant.
LEMMA InitIInv == Init => IInv
<1> SUFFICES ASSUME Init PROVE IInv
  OBVIOUS
<1>1. TypeOK
  BY AnyKeyType, BoundsAssumption DEF Init, TypeOK, Phases, Places
<1>2. RegInv
  BY BoundsAssumption DEF Init, RegInv, BufferShort, DeletingHolds, RegisteredIsUsed,
     LiveRunIsRegistered, Live, Producing, Runs
<1> QED
  BY <1>1, <1>2 DEF IInv

\* A step that changes nothing keeps it.
LEMMA StutterIInv == IInv /\ UNCHANGED vars => IInv'
BY DEF IInv, vars, TypeOK, RegInv, BufferShort, DeletingHolds, RegisteredIsUsed,
   LiveRunIsRegistered, Live

\* The inductive invariant holds in every reachable state.
THEOREM Invariance == Spec => []IInv
<1>1. IInv /\ [Next]_vars => IInv'
  BY TypeStep, RegistryStep, StutterIInv DEF IInv, RegInv
<1> QED
  BY InitIInv, <1>1, PTL DEF Spec

\* The tracker's variables always have their types; in particular a replay
\* buffer never holds more than its cap and one error event.
THEOREM TypeCorrect == Spec => []TypeOK
<1>1. IInv => TypeOK
  BY DEF IInv
<1> QED
  BY Invariance, <1>1, PTL

\* Whatever purges, stops, failures and restarts happen, a run that is still
\* alive is the one registered for its chat.
THEOREM OneLiveRunPerKey == Spec => []LiveRunIsRegistered
<1>1. IInv => LiveRunIsRegistered
  BY DEF IInv, RegInv
<1> QED
  BY Invariance, <1>1, PTL
-----------------------------------------------------------------------------
(* Which runs the registry keeps *)

\* The completed runs whose retention has begun.
Retained == {q \in Runs : retained[q] # 0}

\* Retention begins when a run is finalised, once per run.
RetainedWhenEnding ==
    \A r \in Runs :
        /\ phase[r] \in {"flushing", "sealing", "done"} => retained[r] # 0
        /\ retained[r] # 0 => phase[r] \in {"flushing", "sealing", "done", "lost"}

\* The ranks of retention are distinct, and the next one is above them all.
RanksDiffer ==
    \A q \in Runs : /\ retained[q] <= Cardinality(Retained)
                    /\ \A r \in Runs : retained[q] = retained[r] /\ retained[q] # 0 => q = r

RankInv == IInv /\ RetainedWhenEnding /\ RanksDiffer

\* The types of the variables.
LEMMA VariableTypes ==
    ASSUME TypeOK
    PROVE  /\ runs \in [Keys -> Runs \cup {0}] /\ key \in [Runs -> Keys]
           /\ phase \in [Runs -> Phases] /\ subs \in [Runs -> SUBSET Clients]
           /\ at \in [Clients -> Places] /\ from \in [Clients -> Runs \cup {0}]
           /\ target \in [Clients -> Keys] /\ buffer \in [Runs -> Seq(Nat)]
           /\ queue \in [Clients -> Seq(Int)]
           /\ \A w \in writes : w.run \in Runs
           /\ 0 \notin Runs
BY BoundsAssumption DEF TypeOK, Runs

\* The number of completed runs whose retention has begun.
LEMMA RetainedIsFinite ==
    /\ IsFiniteSet(Runs) /\ IsFiniteSet(Retained) /\ Cardinality(Retained) \in Nat
    /\ Cardinality(Retained) <= MaxRuns
<1>1. IsFiniteSet(Runs) /\ Cardinality(Runs) = MaxRuns
  BY FS_Interval, BoundsAssumption DEF Runs
<1>2. Retained \in SUBSET Runs
  BY DEF Retained
<1>. QED
  BY <1>1, <1>2, FS_Subset, FS_CardinalityType

\* Retention still begins with the finalisation only.
LEMMA RetainedWhenEndingStep ==
    ASSUME TypeOK, DeletingHolds, RetainedWhenEnding, Next, NEW q \in Runs
    PROVE  /\ phase'[q] \in {"flushing", "sealing", "done"} => retained'[q] # 0
           /\ retained'[q] # 0 => phase'[q] \in {"flushing", "sealing", "done", "lost"}
<1>. DEFINE Goal == /\ phase'[q] \in {"flushing", "sealing", "done"} => retained'[q] # 0
                    /\ retained'[q] # 0 => phase'[q] \in {"flushing", "sealing", "done", "lost"}
<1>a. /\ phase[q] \in {"flushing", "sealing", "done"} => retained[q] # 0
      /\ retained[q] # 0 => phase[q] \in {"flushing", "sealing", "done", "lost"}
  BY DEF RetainedWhenEnding
<1>b. Cardinality(Retained) + 1 # 0 /\ retained \in [Runs -> Nat]
  BY RetainedIsFinite DEF TypeOK
<1>1. ASSUME NEW c \in Clients, NEW k \in Keys,
             NEW op \in {"attaching", "starting", "stopping"}, Call(c, op, k)
      PROVE  Goal
  BY <1>1, <1>a, VariableTypes DEF Call, runVars
<1>2. ASSUME NEW c \in Clients, NEW k \in Keys, Attach(c, k)
      PROVE  Goal
  BY <1>2, <1>a, VariableTypes DEF Attach, Done, Finished
<1>3. ASSUME NEW c \in Clients, NEW k \in Keys, AttachMisses(c, k)
      PROVE  Goal
  BY <1>3, <1>a, VariableTypes DEF AttachMisses, runVars
<1>4. ASSUME NEW c \in Clients, NEW k \in Keys, Join(c, k)
      PROVE  Goal
  BY <1>4, <1>a, VariableTypes DEF Join, Done, Finished
<1>5. ASSUME NEW c \in Clients, NEW k \in Keys, Start(c, k)
      PROVE  Goal
  BY <1>5, <1>a, VariableTypes DEF Start, Used, Done, Finished
<1>6. ASSUME NEW c \in Clients, NEW k \in Keys, Stop(c, k)
      PROVE  Goal
  BY <1>6, <1>a, VariableTypes DEF Stop, Done, Finished
<1>7. ASSUME NEW c \in Clients, ReadReplay(c)
      PROVE  Goal
  BY <1>7, <1>a, VariableTypes DEF ReadReplay, runVars
<1>8. ASSUME NEW c \in Clients, ReadNothing(c)
      PROVE  Goal
  BY <1>8, <1>a, VariableTypes DEF ReadNothing, runVars
<1>9. ASSUME NEW c \in Clients, ReadExpired(c)
      PROVE  Goal
  BY <1>9, <1>a, VariableTypes DEF ReadExpired, runVars
<1>10. ASSUME NEW c \in Clients, UnlinkExpired(c)
      PROVE  Goal
  BY <1>10, <1>a, VariableTypes DEF UnlinkExpired, runVars
<1>11. ASSUME NEW c \in Clients, DeleteReplay(c)
      PROVE  Goal
  <2>1. /\ phase' = [phase EXCEPT ![from[c]] = "created"] /\ retained' = retained
        /\ phase[from[c]] = "placeholder"
    BY <1>11 DEF DeleteReplay, DeletingHolds
  <2>. QED
    BY <1>a, <2>1, VariableTypes
<1>12. ASSUME NEW c \in Clients, DeleteFails(c)
      PROVE  Goal
  <2>1. /\ phase' = [phase EXCEPT ![from[c]] = "stuck"] /\ retained' = retained
        /\ phase[from[c]] = "placeholder"
    BY <1>12 DEF DeleteFails, DeletingHolds
  <2>. QED
    BY <1>a, <2>1, VariableTypes
<1>13. ASSUME NEW c \in Clients, Leave(c)
      PROVE  Goal
  BY <1>13, <1>a, VariableTypes DEF Leave, runVars
<1>14. ASSUME NEW c \in Clients, Detach(c)
      PROVE  Goal
  BY <1>14, <1>a, VariableTypes DEF Detach
<1>15. ASSUME NEW c \in Clients, StopReturns(c)
      PROVE  Goal
  BY <1>15, <1>a, VariableTypes DEF StopReturns, runVars, Done, Finished
<1>16. ASSUME NEW r \in Runs, Block(r)
      PROVE  Goal
  BY <1>16, <1>a, VariableTypes DEF Block
<1>17. ASSUME NEW r \in Runs, Enter(r)
      PROVE  Goal
  BY <1>17, <1>a, VariableTypes DEF Enter
<1>18. ASSUME NEW r \in Runs, Emit(r)
      PROVE  Goal
  BY <1>18, <1>a, VariableTypes DEF Emit
<1>19. ASSUME NEW r \in Runs, StreamEnds(r)
      PROVE  Goal
  BY <1>19, <1>a, VariableTypes DEF StreamEnds
<1>20. ASSUME NEW r \in Runs, StreamRaises(r)
      PROVE  Goal
  BY <1>20, <1>a, VariableTypes DEF StreamRaises
<1>21. ASSUME NEW r \in Runs, ReportError(r)
      PROVE  Goal
  BY <1>21, <1>a, VariableTypes DEF ReportError
<1>22. ASSUME NEW r \in Runs, Finalise(r)
      PROVE  Goal
  <2>1. /\ phase[r] = "finishing" /\ phase'[r] \in {"flushing", "done"}
        /\ retained' = [retained EXCEPT ![r] = Cardinality(Retained) + 1]
        /\ \A p \in Runs : p # r => phase'[p] = phase[p]
    BY <1>22, VariableTypes DEF Finalise, Retained
  <2>. QED
    BY <1>a, <1>b, <2>1
<1>23. ASSUME NEW r \in Runs, RaiseCancelled(r) \/ GiveUpWrite(r)
      PROVE  Goal
  <2>1. PICK p \in {"finishing", "killed", "done", "draining", "sealing"} :
          /\ phase' = [phase EXCEPT ![r] = p]
          /\ phase[r] \in {"flushing", "sealing"} <=> p \in {"done", "sealing"}
          /\ phase[r] \in Producing
    BY <1>23, CancelSteps DEF CancelMoves
  <2>2. retained' = retained
    BY <1>23, CancelSteps
  <2>. HIDE <1>23
  <2>. QED
    BY <1>a, <2>1, <2>2, VariableTypes DEF Producing
<1>24. ASSUME NEW w \in writes, WriteLands(w) \/ WriteFails(w)
      PROVE  Goal
  BY <1>24, <1>a, WriteSteps, VariableTypes DEF WriteMoves
<1>26. ASSUME NEW k \in Keys, PruneReplay(k)
      PROVE  Goal
  BY <1>26, <1>a, VariableTypes DEF PruneReplay, runVars
<1>27. ASSUME GetStatus
      PROVE  Goal
  BY <1>27, <1>a, VariableTypes DEF GetStatus, runVars
<1>28. ASSUME Crash
      PROVE  Goal
  BY <1>28, <1>a, VariableTypes DEF Crash, Done, Finished
<1>. QED
  BY <1>1, <1>2, <1>3, <1>4, <1>5, <1>6, <1>7, <1>8, <1>9, <1>10, <1>11,
     <1>12, <1>13, <1>14, <1>15, <1>16, <1>17, <1>18, <1>19, <1>20, <1>21,
     <1>22, <1>23, <1>24, <1>26, <1>27, <1>28 DEF Next, ClientSteps,
     RunSteps

\* A step gives at most one run a rank, the next one.
LEMMA RankSteps ==
    ASSUME Next
    PROVE  \/ retained' = retained
           \/ \E r \in Runs :
                /\ phase[r] = "finishing"
                /\ retained' = [retained EXCEPT ![r] = Cardinality(Retained) + 1]
<1>. DEFINE Goal == \/ retained' = retained
                    \/ \E r \in Runs :
                         /\ phase[r] = "finishing"
                         /\ retained' = [retained EXCEPT ![r] = Cardinality(Retained) + 1]
<1>1. ASSUME NEW c \in Clients, NEW k \in Keys,
             NEW op \in {"attaching", "starting", "stopping"}, Call(c, op, k)
      PROVE  Goal
  BY <1>1 DEF Call, runVars
<1>2. ASSUME NEW c \in Clients, NEW k \in Keys, Attach(c, k)
      PROVE  Goal
  BY <1>2 DEF Attach
<1>3. ASSUME NEW c \in Clients, NEW k \in Keys, AttachMisses(c, k)
      PROVE  Goal
  BY <1>3 DEF AttachMisses, runVars
<1>4. ASSUME NEW c \in Clients, NEW k \in Keys, Join(c, k)
      PROVE  Goal
  BY <1>4 DEF Join
<1>5. ASSUME NEW c \in Clients, NEW k \in Keys, Start(c, k)
      PROVE  Goal
  BY <1>5 DEF Start
<1>6. ASSUME NEW c \in Clients, NEW k \in Keys, Stop(c, k)
      PROVE  Goal
  BY <1>6 DEF Stop
<1>7. ASSUME NEW c \in Clients, ReadReplay(c)
      PROVE  Goal
  BY <1>7 DEF ReadReplay, runVars
<1>8. ASSUME NEW c \in Clients, ReadNothing(c)
      PROVE  Goal
  BY <1>8 DEF ReadNothing, runVars
<1>9. ASSUME NEW c \in Clients, ReadExpired(c)
      PROVE  Goal
  BY <1>9 DEF ReadExpired, runVars
<1>10. ASSUME NEW c \in Clients, UnlinkExpired(c)
      PROVE  Goal
  BY <1>10 DEF UnlinkExpired, runVars
<1>11. ASSUME NEW c \in Clients, DeleteReplay(c)
      PROVE  Goal
  BY <1>11 DEF DeleteReplay
<1>12. ASSUME NEW c \in Clients, DeleteFails(c)
      PROVE  Goal
  BY <1>12 DEF DeleteFails
<1>13. ASSUME NEW c \in Clients, Leave(c)
      PROVE  Goal
  BY <1>13 DEF Leave, runVars
<1>14. ASSUME NEW c \in Clients, Detach(c)
      PROVE  Goal
  BY <1>14 DEF Detach
<1>15. ASSUME NEW c \in Clients, StopReturns(c)
      PROVE  Goal
  BY <1>15 DEF StopReturns, runVars
<1>16. ASSUME NEW r \in Runs, Block(r)
      PROVE  Goal
  BY <1>16 DEF Block
<1>17. ASSUME NEW r \in Runs, Enter(r)
      PROVE  Goal
  BY <1>17 DEF Enter
<1>18. ASSUME NEW r \in Runs, Emit(r)
      PROVE  Goal
  BY <1>18 DEF Emit
<1>19. ASSUME NEW r \in Runs, StreamEnds(r)
      PROVE  Goal
  BY <1>19 DEF StreamEnds
<1>20. ASSUME NEW r \in Runs, StreamRaises(r)
      PROVE  Goal
  BY <1>20 DEF StreamRaises
<1>21. ASSUME NEW r \in Runs, ReportError(r)
      PROVE  Goal
  BY <1>21 DEF ReportError
<1>22. ASSUME NEW r \in Runs, Finalise(r)
      PROVE  Goal
  BY <1>22 DEF Finalise, Retained
<1>23. ASSUME NEW r \in Runs, RaiseCancelled(r) \/ GiveUpWrite(r)
      PROVE  Goal
  BY <1>23, CancelSteps
<1>24. ASSUME NEW w \in writes, WriteLands(w) \/ WriteFails(w)
      PROVE  Goal
  BY <1>24, WriteSteps
<1>26. ASSUME NEW k \in Keys, PruneReplay(k)
      PROVE  Goal
  BY <1>26 DEF PruneReplay, runVars
<1>27. ASSUME GetStatus
      PROVE  Goal
  BY <1>27 DEF GetStatus, runVars
<1>28. ASSUME Crash
      PROVE  Goal
  BY <1>28 DEF Crash
<1>. QED
  BY <1>1, <1>2, <1>3, <1>4, <1>5, <1>6, <1>7, <1>8, <1>9, <1>10, <1>11,
     <1>12, <1>13, <1>14, <1>15, <1>16, <1>17, <1>18, <1>19, <1>20, <1>21,
     <1>22, <1>23, <1>24, <1>26, <1>27, <1>28 DEF Next, ClientSteps,
     RunSteps

\* The ranks stay distinct.
LEMMA RanksDifferStep ==
    ASSUME TypeOK, RetainedWhenEnding, RanksDiffer, Next
    PROVE  RanksDiffer'
<1>1. CASE retained' = retained
  BY <1>1 DEF RanksDiffer, Retained
<1>2. ASSUME NEW r \in Runs, phase[r] = "finishing",
             retained' = [retained EXCEPT ![r] = Cardinality(Retained) + 1]
      PROVE  RanksDiffer'
  <2> DEFINE n == Cardinality(Retained)
  <2>1. n \in Nat /\ retained \in [Runs -> Nat] /\ \A q \in Runs : retained[q] <= n
    BY RetainedIsFinite DEF TypeOK, RanksDiffer
  <2>2. retained[r] = 0
    BY <1>2 DEF RetainedWhenEnding
  <2>3. Retained' = Retained \cup {r}
    <3>1. n + 1 # 0
      BY <2>1
    <3>2. retained'[r] = n + 1 /\ \A q \in Runs \ {r} : retained'[q] = retained[q]
      BY <1>2, <2>1
    <3> HIDE DEF n
    <3> QED
      BY <3>1, <3>2 DEF Retained
  <2>4. Cardinality(Retained') = n + 1
    <3>1. r \notin Retained
      BY <2>2 DEF Retained
    <3>. QED
      BY <2>3, <3>1, RetainedIsFinite, FS_AddElement
  <2>. HIDE DEF n
  <2>5. retained' = [retained EXCEPT ![r] = n + 1]
    BY <1>2 DEF n
  <2>6. ASSUME NEW q \in Runs
        PROVE  retained'[q] <= n + 1
    BY <2>1, <2>5
  <2>7. ASSUME NEW q \in Runs, NEW p \in Runs, retained'[q] = retained'[p], retained'[q] # 0
        PROVE  q = p
    BY <2>1, <2>5, <2>7 DEF RanksDiffer
  <2>. QED
    BY <2>4, <2>6, <2>7 DEF RanksDiffer
<1>. QED
  BY <1>1, <1>2, RankSteps

\* A non-empty set with a bounded measure has an element of the largest one.
LEMMA Largest ==
    ASSUME NEW T, T # {}, NEW B \in Nat, NEW f, \A x \in T : f[x] \in 0 .. B
    PROVE  \E x \in T : \A y \in T : f[y] <= f[x]
<1> DEFINE D == {n \in Nat : \E x \in T : n = B - f[x]}
<1>1. D \subseteq Nat /\ D # {}
  <2>1. PICK x \in T : TRUE
    OBVIOUS
  <2>2. B - f[x] \in Nat
    BY <2>1
  <2>. QED
    BY <2>1, <2>2
<1>2. PICK m \in D : \A n \in D : ~(<<n, m>> \in OpToRel(<, Nat))
  <2>. HIDE DEF D
  <2>. QED
    BY <1>1, NatLessThanWellFounded, WFMin
<1>3. \A n \in D : ~(n < m)
  BY <1>1, <1>2 DEF OpToRel
<1>4. PICK x \in T : m = B - f[x]
  OBVIOUS
<1>5. ASSUME NEW y \in T
      PROVE  f[y] <= f[x]
  <2>1. B - f[y] \in D
    OBVIOUS
  <2>2. ~(B - f[y] < m)
    BY <1>3, <2>1
  <2>3. f[x] \in Int /\ f[y] \in Int
    OBVIOUS
  <2>. QED
    BY <1>4, <2>2, <2>3
<1>. QED
  BY <1>4, <1>5

\* The elements of S that f ranks above v, and those that have fewer than M
\* elements above themselves.
Above(S, f, v)   == {j \in S : f[j] > v}
Top(S, f, v, M)  == {j \in Above(S, f, v) : Cardinality(Above(S, f, f[j])) < M}

\* Whoever has at least M elements of a finite set above it has among them M
\* elements that have fewer than M above themselves.
LEMMA KeptAbove ==
    ASSUME NEW S, IsFiniteSet(S), NEW B \in Nat, NEW f, \A x \in S : f[x] \in 0 .. B,
           NEW M \in Nat, NEW v \in Nat, M <= Cardinality(Above(S, f, v))
    PROVE  M <= Cardinality(Top(S, f, v, M))
<1> DEFINE Kept == Top(S, f, v, M)
           Rest == Above(S, f, v) \ Kept
<1>1. \A x : IsFiniteSet(Above(S, f, x)) /\ Cardinality(Above(S, f, x)) \in Nat
  <2>1. \A x : Above(S, f, x) \in SUBSET S
    BY DEF Above
  <2>. QED
    BY <2>1, FS_Subset, FS_CardinalityType
<1>2. IsFiniteSet(Kept) /\ Cardinality(Kept) \in Nat
  <2>1. Kept \in SUBSET S
    BY DEF Top, Above
  <2>. HIDE DEF Kept
  <2>. QED
    BY <2>1, FS_Subset, FS_CardinalityType
<1>3. ASSUME ~(M <= Cardinality(Kept))
      PROVE  FALSE
  <2>1. Rest # {}
    <3>1. Kept # Above(S, f, v)
      <4>. HIDE DEF Kept
      <4>1. M <= Cardinality(Above(S, f, v))
        OBVIOUS
      <4>. QED
        BY <1>3, <4>1
    <3>. QED
      BY <3>1 DEF Top
  <2>2. PICK x \in Rest : \A y \in Rest : f[y] <= f[x]
    <3>1. \A y \in Rest : f[y] \in 0 .. B
      BY DEF Above
    <3>. HIDE DEF Rest
    <3>. QED
      BY <2>1, <3>1, Largest
  <2>3. x \in S /\ f[x] > v /\ f[x] \in Nat /\ x \in Above(S, f, v) /\ x \notin Kept
    BY DEF Above
  <2>4. Above(S, f, f[x]) \subseteq Kept
    <3>1. SUFFICES ASSUME NEW y \in S, f[y] > f[x]
                   PROVE  y \in Kept
      BY DEF Above
    <3>2. f[y] \in Nat /\ f[y] > v
      BY <2>3, <3>1
    <3>3. y \in Above(S, f, v)
      BY <3>1, <3>2 DEF Above
    <3>4. ~(f[y] <= f[x])
      BY <2>3, <3>1, <3>2
    <3>5. y \notin Rest
      BY <2>2, <3>4
    <3>. QED
      BY <3>3, <3>5
  <2>5. Cardinality(Above(S, f, f[x])) <= Cardinality(Kept)
    <3>. HIDE DEF Kept
    <3>. QED
      BY <1>2, <2>4, FS_Subset
  <2>6. Cardinality(Above(S, f, f[x])) < M
    <3>. HIDE DEF Kept
    <3>. QED
      BY <1>1, <1>2, <1>3, <2>5
  <2>. QED
    BY <2>3, <2>6 DEF Top
<1>. QED
  BY <1>3

\* What a step that is no restart takes out of the registry a purge takes out.
LEMMA OnlyPurgesForget ==
    ASSUME TypeOK, Next, crashes' = crashes, ~TTLElapses,
           NEW k0 \in Keys, runs[k0] # 0, runs'[k0] = 0
    PROVE  \A j \in Keys : runs'[j] = 0 => Purged(0)[j] = 0
<1>. DEFINE Goal == \A j \in Keys : runs'[j] = 0 => Purged(0)[j] = 0
<1>a. /\ \A cut \in Cuts : cut = 0
      /\ runs' # runs /\ crashes \in Nat
  BY DEF Cuts, TypeOK
<1>1. ASSUME NEW c \in Clients, NEW k \in Keys,
             NEW op \in {"attaching", "starting", "stopping"}, Call(c, op, k)
      PROVE  Goal
  BY <1>1, <1>a DEF Call, runVars
<1>2. ASSUME NEW c \in Clients, NEW k \in Keys, Attach(c, k)
      PROVE  Goal
  <2>1. PICK cut \in Cuts : runs' = Purged(cut)
    BY <1>2 DEF Attach
  <2>. QED
    BY <1>a, <2>1
<1>3. ASSUME NEW c \in Clients, NEW k \in Keys, AttachMisses(c, k)
      PROVE  Goal
  <2>1. PICK cut \in Cuts : runs' = Purged(cut)
    BY <1>3 DEF AttachMisses
  <2>. QED
    BY <1>a, <2>1
<1>4. ASSUME NEW c \in Clients, NEW k \in Keys, Join(c, k)
      PROVE  Goal
  <2>1. PICK cut \in Cuts : runs' = Purged(cut)
    BY <1>4 DEF Join
  <2>. QED
    BY <1>a, <2>1
<1>5. ASSUME NEW c \in Clients, NEW k \in Keys, Start(c, k)
      PROVE  Goal
  <2>1. PICK cut \in Cuts, r \in Runs : runs' = [Purged(cut) EXCEPT ![k] = r]
    BY <1>5 DEF Start
  <2>2. r # 0
    BY <2>1, VariableTypes
  <2>. QED
    BY <1>a, <2>1, <2>2, PurgeKeepsLive
<1>6. ASSUME NEW c \in Clients, NEW k \in Keys, Stop(c, k)
      PROVE  Goal
  BY <1>6, <1>a DEF Stop
<1>7. ASSUME NEW c \in Clients, ReadReplay(c)
      PROVE  Goal
  BY <1>7, <1>a DEF ReadReplay, runVars, budgets
<1>8. ASSUME NEW c \in Clients, ReadNothing(c)
      PROVE  Goal
  BY <1>8, <1>a DEF ReadNothing, runVars, budgets
<1>9. ASSUME NEW c \in Clients, ReadExpired(c)
      PROVE  Goal
  BY <1>9, <1>a DEF ReadExpired, runVars, budgets
<1>10. ASSUME NEW c \in Clients, UnlinkExpired(c)
      PROVE  Goal
  BY <1>10, <1>a DEF UnlinkExpired, runVars, budgets
<1>11. ASSUME NEW c \in Clients, DeleteReplay(c)
      PROVE  Goal
  BY <1>11, <1>a DEF DeleteReplay, budgets
<1>12. ASSUME NEW c \in Clients, DeleteFails(c)
      PROVE  Goal
  BY <1>12, <1>a DEF DeleteFails
<1>13. ASSUME NEW c \in Clients, Leave(c)
      PROVE  Goal
  BY <1>13, <1>a DEF Leave, runVars, budgets
<1>14. ASSUME NEW c \in Clients, Detach(c)
      PROVE  Goal
  BY <1>14, <1>a DEF Detach, budgets
<1>15. ASSUME NEW c \in Clients, StopReturns(c)
      PROVE  Goal
  BY <1>15, <1>a DEF StopReturns, runVars, budgets
<1>16. ASSUME NEW r \in Runs, Block(r)
      PROVE  Goal
  BY <1>16, <1>a DEF Block, budgets
<1>17. ASSUME NEW r \in Runs, Enter(r)
      PROVE  Goal
  BY <1>17, <1>a DEF Enter, budgets
<1>18. ASSUME NEW r \in Runs, Emit(r)
      PROVE  Goal
  BY <1>18, <1>a DEF Emit, budgets
<1>19. ASSUME NEW r \in Runs, StreamEnds(r)
      PROVE  Goal
  BY <1>19, <1>a DEF StreamEnds, budgets
<1>20. ASSUME NEW r \in Runs, StreamRaises(r)
      PROVE  Goal
  BY <1>20, <1>a DEF StreamRaises
<1>21. ASSUME NEW r \in Runs, ReportError(r)
      PROVE  Goal
  BY <1>21, <1>a DEF ReportError, budgets
<1>22. ASSUME NEW r \in Runs, Finalise(r)
      PROVE  Goal
  <2>1. PICK cut \in Cuts : runs' = Purged(cut)
    BY <1>22 DEF Finalise
  <2>. QED
    BY <1>a, <2>1
<1>23. ASSUME NEW r \in Runs, RaiseCancelled(r) \/ GiveUpWrite(r)
      PROVE  Goal
  BY <1>23, <1>a, CancelSteps
<1>24. ASSUME NEW w \in writes, WriteLands(w) \/ WriteFails(w)
      PROVE  Goal
  BY <1>24, <1>a, WriteSteps
<1>26. ASSUME NEW k \in Keys, PruneReplay(k)
      PROVE  Goal
  BY <1>26, <1>a DEF PruneReplay, runVars, budgets
<1>27. ASSUME GetStatus
      PROVE  Goal
  <2>1. PICK cut \in Cuts : runs' = Purged(cut)
    BY <1>27 DEF GetStatus
  <2>. QED
    BY <1>a, <2>1
<1>28. ASSUME Crash
      PROVE  Goal
  BY <1>28, <1>a DEF Crash
<1>. QED
  BY <1>1, <1>2, <1>3, <1>4, <1>5, <1>6, <1>7, <1>8, <1>9, <1>10, <1>11,
     <1>12, <1>13, <1>14, <1>15, <1>16, <1>17, <1>18, <1>19, <1>20, <1>21,
     <1>22, <1>23, <1>24, <1>26, <1>27, <1>28 DEF Next, ClientSteps,
     RunSteps

\* The ranks of the completed runs that are registered: a run that has one
\* stays longer than exactly those with a lower one.
LEMMA CompletedRanks ==
    ASSUME RankInv, NEW S, S = {j \in Keys : runs[j] # 0 /\ Done(runs[j])}
    PROVE  /\ IsFiniteSet(S)
           /\ \A j \in S : runs[j] \in Runs /\ retained[runs[j]] \in 0 .. MaxRuns
           /\ \A i, j \in S : retained[runs[j]] # 0
                => (KeptLonger(runs[i], runs[j])
                      <=> retained[runs[i]] > retained[runs[j]])
<1>. TypeOK /\ RegisteredIsUsed
  BY DEF RankInv, IInv, RegInv
<1>1. ASSUME NEW j \in S
      PROVE  runs[j] \in Runs /\ retained[runs[j]] \in 0 .. MaxRuns
  <2>1. runs[j] \in Runs /\ j \in Keys /\ runs[j] # 0
    BY VariableTypes
  <2>2. retained[runs[j]] <= Cardinality(Retained)
    BY <2>1 DEF RankInv, RanksDiffer
  <2>3. retained[runs[j]] \in Nat
    BY <2>1 DEF TypeOK
  <2>. QED
    BY <2>1, <2>2, <2>3, RetainedIsFinite, BoundsAssumption
<1>2. ASSUME NEW i \in S, NEW j \in S, retained[runs[j]] # 0
      PROVE  KeptLonger(runs[i], runs[j]) <=> retained[runs[i]] > retained[runs[j]]
  <2>1. CASE retained[runs[i]] = retained[runs[j]]
    <3>1. runs[i] = runs[j] /\ runs[i] \in Runs
      BY <1>1, <1>2, <2>1 DEF RankInv, RanksDiffer
    <3>. QED
      BY <3>1, <2>1 DEF KeptLonger, Runs
  <2>2. CASE retained[runs[i]] # retained[runs[j]]
    BY <2>2 DEF KeptLonger
  <2>. QED
    BY <2>1, <2>2
<1>3. IsFiniteSet(S)
  <2> DEFINE g == [j \in S |-> runs[j]]
  <2>1. g \in Injection(S, Runs)
    <3>1. \A i, j \in S : runs[i] = runs[j] => i = j
      BY DEF RegisteredIsUsed
    <3>2. g \in [S -> Runs]
      BY <1>1
    <3>. QED
      BY <3>1, <3>2 DEF Injection, IsInjective
  <2>. QED
    BY <2>1, RetainedIsFinite, FS_Injection
<1>. QED
  BY <1>1, <1>2, <1>3

\* A run that a purge forgets makes way for MaxCompleted runs that completed
\* later, whose chats stay registered.
LEMMA RecentRunsStayStep ==
    ASSUME RankInv, Next, crashes' = crashes, ~TTLElapses,
           NEW k \in Keys, runs[k] # 0, retained[runs[k]] # 0, runs'[k] = 0
    PROVE  MaxCompleted <= Cardinality(
             {j \in Keys : /\ runs[j] # 0 /\ Done(runs[j])
                           /\ retained[runs[j]] > retained[runs[k]]
                           /\ runs'[j] # 0})
<1> DEFINE S == {j \in Keys : runs[j] # 0 /\ Done(runs[j])}
           f == [j \in S |-> retained[runs[j]]]
           Later == {j \in Keys : /\ runs[j] # 0 /\ Done(runs[j])
                                  /\ retained[runs[j]] > retained[runs[k]]
                                  /\ runs'[j] # 0}
<1>. TypeOK
  BY DEF RankInv, IInv
<1>2. /\ IsFiniteSet(S)
      /\ \A j \in S : runs[j] \in Runs /\ retained[runs[j]] \in 0 .. MaxRuns
      /\ \A i, j \in S : retained[runs[j]] # 0
           => (KeptLonger(runs[i], runs[j]) <=> retained[runs[i]] > retained[runs[j]])
  <2>. HIDE DEF S
  <2>1. S = {j \in Keys : runs[j] # 0 /\ Done(runs[j])}
    BY DEF S
  <2>. QED
    BY <2>1, CompletedRanks
<1>3. ASSUME NEW j \in Keys, retained[runs[j]] # 0
      PROVE  Purged(0)[j] = IF j \in S /\ Cardinality(Above(S, f, retained[runs[j]])) >= MaxCompleted
                            THEN 0 ELSE runs[j]
  <2>1. Purged(0)[j] = IF j \in S /\ Cardinality({i \in S : KeptLonger(runs[i], runs[j])})
                                       >= MaxCompleted
                       THEN 0 ELSE runs[j]
    <3>1. \A i : ~(i \in 1 .. 0)
      OBVIOUS
    <3>2. {i \in Keys : /\ runs[i] # 0 /\ Done(runs[i])
                        /\ ~(/\ runs[i] # 0 /\ Done(runs[i])
                             /\ retained[runs[i]] \in 1 .. 0)} = S
      BY <3>1
    <3>. HIDE DEF S
    <3>. QED
      BY <3>1, <3>2 DEF Purged
  <2>2. j \in S => {i \in S : KeptLonger(runs[i], runs[j])} = Above(S, f, retained[runs[j]])
    <3>. HIDE DEF S
    <3>. QED
      BY <1>2, <1>3 DEF Above
  <2>. HIDE DEF S, f
  <2>. QED
    BY <2>1, <2>2
<1>4. \A j \in Keys : runs'[j] = 0 => Purged(0)[j] = 0
  BY OnlyPurgesForget
<1>5. k \in S /\ MaxCompleted <= Cardinality(Above(S, f, f[k]))
  <2>1. k \in S /\ Cardinality(Above(S, f, retained[runs[k]])) >= MaxCompleted
    <3>. HIDE DEF S, f
    <3>. QED
      BY <1>3, <1>4
  <2>2. f[k] = retained[runs[k]]
    BY <2>1
  <2>. HIDE DEF S, f
  <2>. QED
    BY <2>1, <2>2
<1>6. MaxCompleted <= Cardinality(Top(S, f, f[k], MaxCompleted))
  <2>1. \A j \in S : f[j] \in 0 .. MaxRuns
    <3>. HIDE DEF S
    <3>. QED
      BY <1>2, BoundsAssumption
  <2>2. f[k] \in Nat /\ MaxRuns \in Nat /\ MaxCompleted \in Nat
    BY <1>5, <2>1, BoundsAssumption
  <2>. HIDE DEF S, f
  <2>. QED
    BY <1>2, <1>5, <2>1, <2>2, KeptAbove
<1>7. Top(S, f, f[k], MaxCompleted) \subseteq Later
  <2>1. SUFFICES ASSUME NEW j \in S, f[j] > f[k],
                        Cardinality(Above(S, f, f[j])) < MaxCompleted
                 PROVE  j \in Later
    BY DEF Top, Above
  <2>2. j \in Keys /\ runs[j] # 0 /\ Done(runs[j]) /\ f[j] = retained[runs[j]]
    OBVIOUS
  <2>3. f[k] = retained[runs[k]]
    BY <1>5
  <2>6. retained[runs[j]] # 0
    <3>1. f[j] \in Nat /\ f[k] \in Nat
      BY <1>2, <1>5
    <3>2. f[j] # 0
      <4>. HIDE DEF f
      <4>. QED
        BY <2>1, <3>1
    <3>. QED
      BY <2>2, <3>2
  <2>4. Purged(0)[j] # 0
    <3>1. Cardinality(Above(S, f, f[j])) \in Nat
      <4>1. Above(S, f, f[j]) \in SUBSET S
        BY DEF Above
      <4>. HIDE DEF S, f
      <4>. QED
        BY <1>2, <4>1, FS_Subset, FS_CardinalityType
    <3>. HIDE DEF S, f
    <3>. QED
      BY <1>3, <2>1, <2>2, <2>6, <3>1, BoundsAssumption
  <2>5. runs'[j] # 0
    BY <1>4, <2>2, <2>4
  <2>. QED
    BY <2>1, <2>2, <2>3, <2>5
<1>8. IsFiniteSet(Later) /\ Cardinality(Later) \in Nat
  <2>1. Later \in SUBSET S
    OBVIOUS
  <2>. HIDE DEF S, Later
  <2>. QED
    BY <1>2, <2>1, FS_Subset, FS_CardinalityType
<1>9. MaxCompleted <= Cardinality(Later)
  <2>. HIDE DEF S, f, Later
  <2> DEFINE X == Top(S, f, f[k], MaxCompleted)
  <2>1. X \in SUBSET Later /\ MaxCompleted <= Cardinality(X)
    BY <1>6, <1>7
  <2>. HIDE DEF X
  <2>2. Cardinality(X) <= Cardinality(Later) /\ Cardinality(X) \in Nat
    BY <1>8, <2>1, FS_Subset, FS_CardinalityType
  <2>. QED
    BY <1>8, <2>1, <2>2, BoundsAssumption
<1>. QED
  BY <1>9

\* The ranks are right initially.
LEMMA InitRankInv == Init => RankInv
<1>. SUFFICES ASSUME Init PROVE RankInv
  OBVIOUS
<1>1. RetainedWhenEnding
  BY DEF Init, RetainedWhenEnding
<1>2. RanksDiffer
  BY RetainedIsFinite DEF Init, RanksDiffer
<1>. QED
  BY InitIInv, <1>1, <1>2 DEF RankInv

\* Every step keeps them right.
LEMMA RankInvStep ==
    ASSUME RankInv, [Next]_vars
    PROVE  RankInv'
<1>1. CASE Next
  <2>1. IInv' /\ TypeOK /\ DeletingHolds /\ RetainedWhenEnding /\ RanksDiffer
    BY <1>1, TypeStep, RegistryStep DEF RankInv, IInv, RegInv
  <2>3. RetainedWhenEnding'
    BY <1>1, <2>1, RetainedWhenEndingStep DEF RetainedWhenEnding
  <2>4. RanksDiffer'
    BY <1>1, <2>1, RanksDifferStep
  <2>. QED
    BY <2>1, <2>3, <2>4 DEF RankInv
<1>2. CASE UNCHANGED vars
  <2>1. IInv'
    BY <1>2, StutterIInv DEF RankInv
  <2>2. RetainedWhenEnding' /\ RanksDiffer'
    BY <1>2 DEF RankInv, vars, RetainedWhenEnding, RanksDiffer, Retained
  <2>. QED
    BY <2>1, <2>2 DEF RankInv
<1>. QED
  BY <1>1, <1>2

\* The rank invariant holds in every reachable state.
THEOREM RankInvariance == Spec => []RankInv
<1>1. RankInv /\ [Next]_vars => RankInv'
  BY RankInvStep
<1>. QED
  BY InitRankInv, <1>1, PTL DEF Spec

\* The registry forgets a run that has been finalised, within its retention,
\* only to keep the runs of MaxCompleted chats that completed later, whatever
\* purges, stops, requests and completions come together in a step.  (A run
\* that a stop kills before its finally block has no retention to speak of.)
THEOREM RecentRunsAreKept == Spec => RecentRunsStay
<1> DEFINE P == \A k \in Keys :
                  runs[k] # 0 /\ retained[runs[k]] # 0 /\ runs'[k] = 0
                    /\ crashes' = crashes /\ ~TTLElapses
                    => MaxCompleted <= Cardinality(
                         {j \in Keys : /\ runs[j] # 0 /\ Done(runs[j])
                                       /\ retained[runs[j]] > retained[runs[k]]
                                       /\ runs'[j] # 0})
<1>1. RankInv /\ [Next]_vars => [P]_vars
  <2>1. SUFFICES ASSUME RankInv, Next
                 PROVE  P
    BY DEF vars
  <2>. QED
    BY <2>1, RecentRunsStayStep
<1>2. RecentRunsStay <=> [][P]_vars
  BY PTL DEF RecentRunsStay
<1>. HIDE DEF P
<1>. QED
  BY RankInvariance, <1>1, <1>2, PTL DEF Spec
-----------------------------------------------------------------------------
(* The lock *)

Members(s) == {s[i] : i \in DOMAIN s}
Once(s)    == \A i, j \in DOMAIN s : s[i] = s[j] => i = j

LEMMA JoiningLine ==
    ASSUME NEW S, NEW s \in Seq(S), NEW x \in S, Once(s), x \notin Members(s)
    PROVE  Once(Append(s, x)) /\ Members(Append(s, x)) = Members(s) \cup {x}
<1> DEFINE t == Append(s, x)
           n == Len(s)
<1>1. /\ n \in Nat /\ DOMAIN s = 1 .. n /\ DOMAIN t = 1 .. n + 1
      /\ t[n + 1] = x /\ \A i \in 1 .. n : t[i] = s[i]
  OBVIOUS
<1> HIDE DEF t, n
<1>2. Once(t)
  <2> SUFFICES ASSUME NEW i \in 1 .. n + 1, NEW j \in 1 .. n + 1, t[i] = t[j]
               PROVE  i = j
    BY <1>1 DEF Once
  <2>1. CASE i \in 1 .. n /\ j \in 1 .. n
    BY <1>1, <2>1 DEF Once
  <2>2. CASE i = n + 1 /\ j \in 1 .. n
    BY <1>1, <2>2 DEF Members
  <2>3. CASE j = n + 1 /\ i \in 1 .. n
    BY <1>1, <2>3 DEF Members
  <2> QED
    BY <1>1, <2>1, <2>2, <2>3
<1>3. Members(t) = Members(s) \cup {x}
  <2>1. \A y : y \in Members(t) <=> \E i \in 1 .. n + 1 : y = t[i]
    BY <1>1 DEF Members
  <2>2. \A y : y \in Members(s) <=> \E i \in 1 .. n : y = s[i]
    BY <1>1 DEF Members
  <2>3. \A i : i \in 1 .. n + 1 <=> i \in 1 .. n \/ i = n + 1
    BY <1>1
  <2> QED
    BY <1>1, <2>1, <2>2, <2>3
<1> QED
  BY <1>2, <1>3 DEF t

LEMMA HeadingLine ==
    ASSUME NEW S, NEW s \in Seq(S), s # <<>>, Once(s)
    PROVE  /\ Once(Tail(s)) /\ Members(Tail(s)) = Members(s) \ {Head(s)}
           /\ Tail(s) \in Seq(S)
<1> DEFINE t == Tail(s)
           n == Len(s)
<1>1. /\ n \in Nat \ {0} /\ DOMAIN s = 1 .. n /\ DOMAIN t = 1 .. n - 1
      /\ Head(s) = s[1] /\ \A i \in 1 .. n - 1 : t[i] = s[i + 1]
  OBVIOUS
<1>2. t \in Seq(S)
  OBVIOUS
<1> HIDE DEF t, n
<1>3. \A i \in 1 .. n - 1 : i + 1 \in 1 .. n /\ i + 1 # 1
  BY <1>1
<1>4. Once(t)
  <2> SUFFICES ASSUME NEW i \in 1 .. n - 1, NEW j \in 1 .. n - 1, t[i] = t[j]
               PROVE  i = j
    BY <1>1 DEF Once
  <2>1. s[i + 1] = s[j + 1] /\ i + 1 \in DOMAIN s /\ j + 1 \in DOMAIN s
    BY <1>1, <1>3
  <2>2. i + 1 = j + 1
    BY <2>1, Zenon DEF Once
  <2> QED
    BY <2>2
<1>5. Members(t) = Members(s) \ {Head(s)}
  <2>1. ASSUME NEW i \in 1 .. n - 1 PROVE t[i] \in Members(s) \ {Head(s)}
    <3>1. 1 \in 1 .. n /\ i + 1 \in 1 .. n /\ i + 1 # 1 /\ t[i] = s[i + 1]
      BY <1>1, <1>3
    <3>2. s[i + 1] # s[1]
      BY <1>1, <3>1 DEF Once
    <3> QED
      BY <1>1, <3>1, <3>2 DEF Members
  <2>2. ASSUME NEW i \in 1 .. n, s[i] # s[1] PROVE s[i] \in Members(t)
    <3>1. i - 1 \in 1 .. n - 1 /\ (i - 1) + 1 = i
      BY <1>1, <2>2
    <3>2. t[i - 1] = s[i]
      BY <1>1, <3>1
    <3> QED
      BY <1>1, <3>1, <3>2 DEF Members
  <2>3. Members(t) = {t[i] : i \in 1 .. n - 1} /\ Members(s) = {s[i] : i \in 1 .. n}
    BY <1>1 DEF Members
  <2>4. Members(t) \subseteq Members(s) \ {Head(s)}
    BY <2>1, <2>3
  <2>5. Members(s) \ {Head(s)} \subseteq Members(t)
    <3> SUFFICES ASSUME NEW i \in 1 .. n, s[i] # Head(s)
                 PROVE  s[i] \in Members(t)
      BY <2>3
    <3> QED
      BY <1>1, <2>2
  <2> QED
    BY <2>4, <2>5
<1> QED
  BY <1>2, <1>4, <1>5 DEF t

\* A cancelled waiter leaves its one place in the queue.
LEMMA LeavingLine ==
    ASSUME NEW S, NEW s \in Seq(S), NEW a, Once(s)
    PROVE  Once(Without(s, a)) /\ Members(Without(s, a)) = Members(s) \ {a}
<1>1. CASE \E i \in DOMAIN s : s[i] = a
  <2> DEFINE i == CHOOSE j \in DOMAIN s : s[j] = a
             t == SubSeq(s, 1, i - 1) \o SubSeq(s, i + 1, Len(s))
             n == Len(s)
  <2>1. n \in Nat /\ DOMAIN s = 1 .. n /\ i \in 1 .. n /\ s[i] = a
    BY <1>1
  <2>2. Without(s, a) = t
    BY <1>1 DEF Without
  <2>3. /\ DOMAIN t = 1 .. n - 1
        /\ \A j \in 1 .. n - 1 : t[j] = IF j < i THEN s[j] ELSE s[j + 1]
    <3> DEFINE u == SubSeq(s, 1, i - 1)
               v == SubSeq(s, i + 1, n)
    <3> HIDE DEF i
    <3>1. \A j \in 1 .. n : s[j] \in S
      BY <2>1
    <3>2. /\ u \in Seq(S) /\ Len(u) = i - 1 /\ \A j \in 1 .. i - 1 : u[j] = s[j]
      BY <2>1, <3>1, SubSeqProperties
    <3>3. /\ v \in Seq(S) /\ Len(v) = n - i /\ \A j \in 1 .. n - i : v[j] = s[i + j]
      <4>1. /\ i + 1 \in Int /\ n \in Int /\ \A j \in i + 1 .. n : s[j] \in S
            /\ n - (i + 1) + 1 = n - i
        BY <2>1, <3>1
      <4>2. /\ v \in Seq(S) /\ Len(v) = IF i + 1 <= n THEN n - (i + 1) + 1 ELSE 0
            /\ \A j \in 1 .. n - (i + 1) + 1 : v[j] = s[(i + 1) + j - 1]
        BY <4>1, SubSeqProperties
      <4>3. \A j \in 1 .. n - i : (i + 1) + j - 1 = i + j
        BY <4>1, <2>1
      <4> HIDE DEF v
      <4>4. Len(v) = n - i
        <5>1. Len(v) = IF i + 1 <= n THEN n - (i + 1) + 1 ELSE 0
          BY <4>2
        <5>2. i \in Int /\ n \in Int /\ i <= n
          BY <2>1
        <5> HIDE DEF n
        <5> QED
          BY <5>1, <5>2
      <4>5. ASSUME NEW j \in 1 .. n - i PROVE v[j] = s[i + j]
        BY <4>1, <4>2, <4>3
      <4> QED
        BY <4>2, <4>4, <4>5
    <3> HIDE DEF u, v
    <3>4. /\ DOMAIN (u \o v) = 1 .. n - 1
          /\ \A j \in 1 .. n - 1 : (u \o v)[j] = IF j <= i - 1 THEN u[j] ELSE v[j - (i - 1)]
      <4>1. Len(u) + Len(v) = n - 1 /\ Len(u) = i - 1
        BY <2>1, <3>2, <3>3
      <4>2. /\ (u \o v) \in Seq(S) /\ Len(u \o v) = Len(u) + Len(v)
            /\ \A j \in 1 .. Len(u) + Len(v) :
                 (u \o v)[j] = IF j <= Len(u) THEN u[j] ELSE v[j - Len(u)]
        BY <3>2, <3>3, ConcatProperties
      <4>3. DOMAIN (u \o v) = 1 .. Len(u \o v)
        BY <4>2
      <4> QED
        BY <4>1, <4>2, <4>3
    <3>5. ASSUME NEW j \in 1 .. n - 1
          PROVE  (u \o v)[j] = IF j < i THEN s[j] ELSE s[j + 1]
      <4>a. (u \o v)[j] = IF j <= i - 1 THEN u[j] ELSE v[j - (i - 1)]
        BY <3>4
      <4>b. i \in Int /\ n \in Int /\ j \in Int /\ 1 <= j /\ j <= n - 1
        BY <2>1
      <4>0. /\ i \in Int /\ n \in Int /\ j \in Int /\ 1 <= j /\ j <= n - 1
            /\ (u \o v)[j] = IF j <= i - 1 THEN u[j] ELSE v[j - (i - 1)]
        BY <4>a, <4>b
      <4>1. CASE j < i
        <5>1. j <= i - 1 /\ j \in 1 .. i - 1
          BY <4>0, <4>1
        <5> QED
          BY <3>2, <4>0, <4>1, <5>1
      <4>2. CASE ~(j < i)
        <5>1. /\ j - (i - 1) \in 1 .. n - i /\ i + (j - (i - 1)) = j + 1
              /\ ~(j <= i - 1)
          BY <4>0, <4>2
        <5>2. v[j - (i - 1)] = s[j + 1]
          BY <3>3, <5>1
        <5> QED
          BY <4>0, <4>2, <5>1, <5>2
      <4> QED
        BY <4>1, <4>2
    <3> QED
      BY <3>4, <3>5 DEF u, v
  <2> HIDE DEF i, t, n
  <2> DEFINE g(j) == IF j < i THEN j ELSE j + 1
  <2>4. /\ \A j \in 1 .. n - 1 : g(j) \in 1 .. n /\ g(j) # i /\ t[j] = s[g(j)]
        /\ \A j, k \in 1 .. n - 1 : g(j) = g(k) => j = k
    BY <2>1, <2>3
  <2>5. \A k \in 1 .. n : k # i => \E j \in 1 .. n - 1 : g(j) = k
    <3> SUFFICES ASSUME NEW k \in 1 .. n, k # i
                 PROVE  \E j \in 1 .. n - 1 : g(j) = k
      OBVIOUS
    <3>1. CASE k < i
      BY <2>1, <3>1
    <3>2. CASE k > i
      <4>1. k - 1 \in 1 .. n - 1 /\ g(k - 1) = k
        BY <2>1, <3>2
      <4> QED
        BY <4>1
    <3> QED
      BY <2>1, <3>1, <3>2
  <2> HIDE DEF g
  <2>6. Once(t)
    BY <2>1, <2>3, <2>4 DEF Once
  <2>7. \A j \in 1 .. n - 1 : t[j] \in Members(s) \ {a}
    BY <2>1, <2>4 DEF Once, Members
  <2>8. \A k \in 1 .. n : s[k] # a => s[k] \in Members(t)
    <3> SUFFICES ASSUME NEW k \in 1 .. n, s[k] # a
                 PROVE  s[k] \in Members(t)
      OBVIOUS
    <3>1. PICK j \in 1 .. n - 1 : g(j) = k
      BY <2>1, <2>5
    <3> QED
      BY <2>3, <2>4, <3>1 DEF Members
  <2>9. Members(t) = Members(s) \ {a}
    <3>1. Members(t) = {t[j] : j \in 1 .. n - 1} /\ Members(s) = {s[k] : k \in 1 .. n}
      BY <2>1, <2>3 DEF Members
    <3> QED
      BY <2>7, <2>8, <3>1
  <2> QED
    BY <2>2, <2>6, <2>9
<1>2. CASE ~ \E i \in DOMAIN s : s[i] = a
  BY <1>2 DEF Without, Members
<1> QED
  BY <1>1, <1>2

RunWaits(r) ==
    /\ phase[r] \in {"entering", "emitting", "erroring", "finishing"}
    /\ ~cancelling[r]

LEMMA WhoWaits ==
    /\ \A c \in Clients : c \in InLine <=> at[c] \in Waiting
    /\ \A c \in Clients : c \in InLine' <=> at'[c] \in Waiting
    /\ \A r \in Runs : r \in InLine <=> RunWaits(r)
    /\ \A r \in Runs : r \in InLine' <=> RunWaits(r)'
    /\ InLine \subseteq Clients \cup Runs /\ InLine' \subseteq Clients \cup Runs
<1>1. Clients \cap Runs = {}
  BY IdsAssumption
<1> QED
  BY <1>1 DEF InLine, RunWaits

\* A step changes who waits at one place only.
LEMMA LineChanges ==
    ASSUME NEW x \in Clients \cup Runs,
           \A y \in (Clients \cup Runs) \ {x} : y \in InLine' <=> y \in InLine
    PROVE  /\ x \in InLine' => InLine' = InLine \cup {x}
           /\ x \notin InLine' => InLine' = InLine \ {x}
BY WhoWaits

LEMMA ClientMoves ==
    ASSUME TypeOK, NEW c \in Clients, NEW p, at' = [at EXCEPT ![c] = p],
           \A r \in Runs : RunWaits(r)' <=> RunWaits(r)
    PROVE  /\ p \in Waiting => InLine' = InLine \cup {c}
           /\ p \notin Waiting => InLine' = InLine \ {c}
           /\ \A d \in Clients : at[d] = "deleting" /\ d # c => at'[d] = "deleting"
<1>1. at'[c] = p /\ \A d \in Clients \ {c} : at'[d] = at[d]
  BY DEF TypeOK
<1>2. \A y \in (Clients \cup Runs) \ {c} : y \in InLine' <=> y \in InLine
  BY <1>1, WhoWaits
<1>3. c \in InLine' <=> p \in Waiting
  BY <1>1, WhoWaits
<1> QED
  BY <1>1, <1>2, <1>3, LineChanges

LEMMA RunMoves ==
    ASSUME TypeOK, NEW r \in Runs, at' = at,
           \A q \in Runs \ {r} : RunWaits(q)' <=> RunWaits(q)
    PROVE  /\ RunWaits(r)' => InLine' = InLine \cup {r}
           /\ ~RunWaits(r)' => InLine' = InLine \ {r}
<1>1. \A y \in (Clients \cup Runs) \ {r} : y \in InLine' <=> y \in InLine
  BY WhoWaits
<1> QED
  BY <1>1, WhoWaits, LineChanges

LEMMA NobodyMoves ==
    ASSUME at' = at, \A r \in Runs : RunWaits(r)' <=> RunWaits(r)
    PROVE  InLine' = InLine
BY WhoWaits

Line == Once(waiters) /\ Members(waiters) = InLine
Held == holder # Nobody => holder \in Clients /\ at[holder] = "deleting"
LockInv == IInv /\ Held /\ Line

LEMMA LineOf ==
    ASSUME LockInv
    PROVE  /\ waiters \in Seq(Clients \cup Runs) /\ Once(waiters)
           /\ Members(waiters) = InLine /\ TypeOK
BY DEF LockInv, IInv, Line, TypeOK

LEMMA JoinsLine ==
    ASSUME LockInv, NEW x \in Clients \cup Runs, x \notin InLine,
           waiters' = Append(waiters, x), InLine' = InLine \cup {x}
    PROVE  Line'
BY LineOf, JoiningLine DEF Line, Once, Members

\* Whoever takes the free lock was the head of its queue or found none.
LEMMA TakesTurn ==
    ASSUME LockInv, NEW x, MyTurn(x)
    PROVE  /\ holder = Nobody /\ Once(Served) /\ Members(Served) = InLine \ {x}
           /\ Served \in Seq(Clients \cup Runs)
<1>1. CASE waiters = <<>>
  <2>1. Members(waiters) = {}
    BY <1>1 DEF Members
  <2> QED
    BY <1>1, <2>1, LineOf DEF Served, MyTurn
<1>2. CASE waiters # <<>>
  BY <1>2, LineOf, HeadingLine DEF Served, MyTurn
<1> QED
  BY <1>1, <1>2

LEMMA LeavesLine ==
    ASSUME LockInv, NEW x, MyTurn(x), waiters' = Served, InLine' = InLine \ {x}
    PROVE  Line'
BY TakesTurn DEF Line, Once, Members

LEMMA StaysInLine ==
    ASSUME LockInv, waiters' = waiters, InLine' = InLine
    PROVE  Line'
BY DEF LockInv, Line, Once, Members

LEMMA StillHeld ==
    ASSUME LockInv, holder' = holder,
           \A d \in Clients : at[d] = "deleting" => at'[d] = "deleting"
    PROVE  Held'
BY DEF LockInv, Held

\* A request that ends or waits for something else leaves the line; one that
\* finds the lock taken joins it.
LEMMA RequestServed ==
    ASSUME LockInv, NEW c \in Clients, NEW p, p \notin Waiting, MyTurn(c),
           at' = [at EXCEPT ![c] = p], waiters' = Served,
           \A r \in Runs : RunWaits(r)' <=> RunWaits(r)
    PROVE  Line' /\ (holder' = holder => Held')
<1>1. InLine' = InLine \ {c}
  BY LineOf, ClientMoves
<1>2. Line'
  BY <1>1, LeavesLine
<1>3. holder = Nobody
  BY DEF MyTurn
<1> QED
  BY <1>2, <1>3 DEF Held

LEMMA RequestQueues ==
    ASSUME LockInv, NEW c \in Clients, NEW p \in Waiting,
           at[c] \in {"idle", "streaming"},
           at' = [at EXCEPT ![c] = p], waiters' = Append(waiters, c),
           holder' = holder, UNCHANGED <<phase, cancelling>>
    PROVE  Line' /\ Held'
<1>0. \A r \in Runs : RunWaits(r)' <=> RunWaits(r)
  BY DEF RunWaits
<1>1. InLine' = InLine \cup {c}
  BY <1>0, LineOf, ClientMoves
<1>2. c \notin InLine
  BY WhoWaits DEF Waiting
<1>3. \A d \in Clients : at[d] = "deleting" => at'[d] = "deleting"
  BY <1>0, LineOf, ClientMoves
<1> QED
  BY <1>1, <1>2, <1>3, JoinsLine, StillHeld

LEMMA RequestMoves ==
    ASSUME LockInv, NEW c \in Clients, NEW p, p \notin Waiting \cup {"deleting"},
           at[c] \notin Waiting \cup {"deleting"},
           at' = [at EXCEPT ![c] = p],
           UNCHANGED <<holder, waiters, phase, cancelling>>
    PROVE  Line' /\ Held'
<1>0. \A r \in Runs : RunWaits(r)' <=> RunWaits(r)
  BY DEF RunWaits
<1>1. InLine' = InLine \ {c}
  BY <1>0, LineOf, ClientMoves
<1>2. c \notin InLine
  BY WhoWaits
<1>3. \A d \in Clients : at[d] = "deleting" => at'[d] = "deleting"
  BY <1>0, LineOf, ClientMoves
<1> QED
  BY <1>1, <1>2, <1>3, StaysInLine, StillHeld

\* The same of a producer.
OnlyRun(r, p) ==
    /\ phase' = [phase EXCEPT ![r] = p]
    /\ at' = at /\ holder' = holder

Queueing == {"entering", "emitting", "erroring", "finishing"}

LEMMA RunChanges ==
    ASSUME LockInv, NEW r \in Runs, NEW p, OnlyRun(r, p),
           \A q \in Runs \ {r} : cancelling'[q] = cancelling[q]
    PROVE  /\ RunWaits(r)' <=> p \in Queueing /\ ~cancelling'[r]
           /\ RunWaits(r)' => InLine' = InLine \cup {r}
           /\ ~RunWaits(r)' => InLine' = InLine \ {r}
           /\ Held'
<1>1. phase'[r] = p /\ \A q \in Runs \ {r} : phase'[q] = phase[q]
  BY LineOf DEF OnlyRun, TypeOK
<1>2. \A q \in Runs \ {r} : RunWaits(q)' <=> RunWaits(q)
  BY <1>1 DEF RunWaits
<1>3. RunWaits(r)' <=> p \in Queueing /\ ~cancelling'[r]
  BY <1>1 DEF RunWaits, Queueing
<1>4. Held'
  BY StillHeld DEF OnlyRun
<1> QED
  BY <1>2, <1>3, <1>4, LineOf, RunMoves DEF OnlyRun

LEMMA RunQueues ==
    ASSUME LockInv, NEW r \in Runs, NEW p \in Queueing, OnlyRun(r, p),
           ~RunWaits(r), ~cancelling'[r], waiters' = Append(waiters, r),
           \A q \in Runs \ {r} : cancelling'[q] = cancelling[q]
    PROVE  Line' /\ Held'
<1>1. InLine' = InLine \cup {r} /\ Held'
  BY RunChanges
<1>2. r \notin InLine
  BY WhoWaits
<1> QED
  BY <1>1, <1>2, JoinsLine

LEMMA RunServed ==
    ASSUME LockInv, NEW r \in Runs, NEW p, p \notin Queueing, OnlyRun(r, p),
           MyTurn(r), cancelling' = cancelling, waiters' = Served
    PROVE  Line' /\ Held'
<1>1. InLine' = InLine \ {r} /\ Held'
  BY RunChanges
<1> QED
  BY <1>1, LeavesLine

LEMMA RunGoesOn ==
    ASSUME LockInv, NEW r \in Runs, NEW p, p \notin Queueing, OnlyRun(r, p),
           ~RunWaits(r), waiters' = waiters,
           \A q \in Runs \ {r} : cancelling'[q] = cancelling[q]
    PROVE  Line' /\ Held'
<1>1. InLine' = InLine \ {r} /\ Held'
  BY RunChanges
<1>2. r \notin InLine
  BY WhoWaits
<1> QED
  BY <1>1, <1>2, StaysInLine

\* What changes neither who waits nor the lock.
LEMMA LockUntouched ==
    ASSUME LockInv, UNCHANGED <<lockVars, at, phase, cancelling>>
    PROVE  Line' /\ Held'
<1>1. \A r \in Runs : RunWaits(r)' <=> RunWaits(r)
  BY DEF RunWaits
<1> QED
  BY <1>1, NobodyMoves, StaysInLine, StillHeld DEF lockVars

LEMMA StartLine ==
    ASSUME LockInv, NEW c \in Clients, NEW k \in Keys, Start(c, k)
    PROVE  Line' /\ Held'
<1>1. PICK r \in Runs \ Used : phase' = [phase EXCEPT ![r] = "placeholder"]
  BY DEF Start
<1>2. \A q \in Runs : RunWaits(q)' <=> RunWaits(q)
  BY <1>1, LineOf DEF Start, RunWaits, TypeOK, Used
<1>3. Line'
  BY <1>2, RequestServed DEF Start, Waiting
<1>4. holder' = c /\ at'[c] = "deleting"
  BY LineOf DEF Start, TypeOK
<1> QED
  BY <1>3, <1>4 DEF Held

LEMMA StopLine ==
    ASSUME LockInv, NEW c \in Clients, NEW k \in Keys, Stop(c, k)
    PROVE  Line' /\ Held'
<1> DEFINE r == runs[k]
<1>0. MyTurn(c) /\ holder' = holder /\ r \in Runs \cup {0}
  BY LineOf DEF Stop, TypeOK
<1>1. ASSUME waiters' = Served, at' = [at EXCEPT ![c] = "idle"],
             \A q \in Runs : RunWaits(q)' <=> RunWaits(q)
      PROVE  Line' /\ Held'
  BY <1>0, <1>1, RequestServed DEF Waiting
<1>2. CASE r # 0 /\ phase[r] = "stuck" /\ phase' = [phase EXCEPT ![r] = "dropped"]
             /\ cancelling' = cancelling /\ Ends(c) /\ waiters' = Served
  <2>1. \A q \in Runs : RunWaits(q)' <=> RunWaits(q)
    BY <1>0, <1>2, LineOf DEF RunWaits, TypeOK
  <2> QED
    BY <1>1, <1>2, <2>1 DEF Ends
<1>3. CASE Ends(c) /\ waiters' = Served /\ UNCHANGED <<phase, cancelling>>
  <2>1. \A q \in Runs : RunWaits(q)' <=> RunWaits(q)
    BY <1>3 DEF RunWaits
  <2> QED
    BY <1>1, <1>3, <2>1 DEF Ends
<1>4. CASE /\ r # 0 /\ cancelling' = [cancelling EXCEPT ![r] = TRUE]
           /\ waiters' = Without(Served, r)
           /\ at' = [at EXCEPT ![c] = "awaiting"] /\ phase' = phase
  <2>1. r \in Runs /\ r \notin Clients /\ r # c
    BY <1>0, <1>4, IdsAssumption
  <2>2. /\ \A q \in {r} : ~RunWaits(q)'
        /\ \A q \in Runs \ {r} : RunWaits(q)' <=> RunWaits(q)
    <3>1. cancelling \in [Runs -> BOOLEAN]
      BY LineOf DEF TypeOK
    <3>2. cancelling'[r] = TRUE
      BY <1>4, <2>1, <3>1
    <3>3. \A q \in Runs \ {r} : cancelling'[q] = cancelling[q]
      BY <1>4, <2>1, <3>1
    <3>4. \A q \in {r} : ~RunWaits(q)'
      BY <3>2, Zenon DEF RunWaits
    <3>5. \A q \in Runs \ {r} : RunWaits(q)' <=> RunWaits(q)
      BY <1>4, <3>3, Zenon DEF RunWaits
    <3> QED
      BY <3>4, <3>5
  <2>3. at'[c] = "awaiting" /\ \A d \in Clients \ {c} : at'[d] = at[d]
    BY <1>4, LineOf DEF TypeOK
  <2>4. InLine' = (InLine \ {c}) \ {r}
    <3>1. \A d \in Clients : d \in InLine' <=> d \in (InLine \ {c}) \ {r}
      BY <2>1, <2>3, WhoWaits DEF Waiting
    <3>2. \A q \in Runs : q \in InLine' <=> q \in (InLine \ {c}) \ {r}
      <4>1. ASSUME NEW q \in Runs PROVE q # c
        BY IdsAssumption
      <4>2. ASSUME NEW q \in Runs, q = r PROVE q \notin InLine'
        BY <2>2, <4>2, WhoWaits
      <4>3. ASSUME NEW q \in Runs, q # r PROVE q \in InLine' <=> q \in InLine
        BY <2>2, <4>3, WhoWaits
      <4> QED
        BY <4>1, <4>2, <4>3
    <3> QED
      BY <3>1, <3>2, WhoWaits
  <2>5. Once(Without(Served, r)) /\ Members(Without(Served, r)) = (InLine \ {c}) \ {r}
    BY <1>0, TakesTurn, LeavingLine
  <2>6. Line'
    BY <1>4, <2>4, <2>5 DEF Line, Once, Members
  <2> QED
    BY <1>0, <2>6 DEF Held, MyTurn
<1> QED
  BY <1>2, <1>3, <1>4 DEF Stop

LEMMA DeleteLine ==
    ASSUME LockInv, NEW c \in Clients, DeleteReplay(c) \/ DeleteFails(c)
    PROVE  Line' /\ Held'
<1>1. /\ at[c] = "deleting" /\ from[c] \in Runs /\ phase[from[c]] = "placeholder"
      /\ holder' = Nobody /\ waiters' = waiters
  BY DEF LockInv, IInv, RegInv, DeletingHolds, DeleteReplay, DeleteFails
<1>2. PICK p \in {"created", "stuck"} :
        phase' = [phase EXCEPT ![from[c]] = p] /\ cancelling' = cancelling
  BY DEF DeleteReplay, DeleteFails
<1>3. \A r \in Runs : RunWaits(r)' <=> RunWaits(r)
  BY <1>1, <1>2, LineOf DEF RunWaits, TypeOK
<1>4. PICK s \in {"streaming", "idle"} : at' = [at EXCEPT ![c] = s]
  BY DEF DeleteReplay, DeleteFails, Ends
<1>5. InLine' = InLine \ {c}
  BY <1>3, <1>4, LineOf, ClientMoves DEF Waiting
<1>6. c \notin InLine
  BY <1>1, WhoWaits DEF Waiting
<1> QED
  BY <1>1, <1>5, <1>6, StaysInLine DEF Held

LEMMA ReportErrorLine ==
    ASSUME LockInv, NEW r \in Runs, ReportError(r)
    PROVE  Line' /\ Held'
<1>1. InLine' = InLine \cup {r} /\ Held'
  BY RunChanges DEF ReportError, OnlyRun, Queueing
<1>2. /\ Once(Served) /\ Members(Served) = InLine \ {r}
      /\ Served \in Seq(Clients \cup Runs)
  BY TakesTurn DEF ReportError
<1>3. Once(Append(Served, r)) /\ Members(Append(Served, r)) = (InLine \ {r}) \cup {r}
  BY <1>2, JoiningLine
<1> QED
  BY <1>1, <1>3 DEF ReportError, Line, Once, Members

LEMMA CancelledLine ==
    ASSUME LockInv, NEW r \in Runs, RaiseCancelled(r) \/ GiveUpWrite(r)
    PROVE  Line' /\ Held'
<1>1. /\ cancelling[r] /\ ~cancelling'[r] /\ ~RunWaits(r)
      /\ \A q \in Runs \ {r} : cancelling'[q] = cancelling[q]
  BY LineOf, CancelSteps DEF TypeOK, RunWaits
<1>2. CASE OnlyRun(r, "finishing") /\ waiters' = Append(waiters, r)
  BY <1>1, <1>2, RunQueues DEF Queueing
<1>3. ASSUME NEW p \in {"killed", "done", "draining", "sealing"}, OnlyRun(r, p),
             waiters' = waiters
      PROVE  Line' /\ Held'
  BY <1>1, <1>3, RunGoesOn DEF Queueing
<1> QED
  BY <1>2, <1>3, CancelSteps DEF CancelMoves, OnlyRun

LEMMA WriteLine ==
    ASSUME LockInv, NEW w \in writes, WriteLands(w) \/ WriteFails(w)
    PROVE  Line' /\ Held'
<1>1. w.run \in Runs
  BY LineOf DEF TypeOK
<1>2. /\ at' = at /\ holder' = holder /\ cancelling' = cancelling
  BY WriteSteps
<1>3. CASE UNCHANGED <<phase, waiters>>
  BY <1>2, <1>3, LockUntouched DEF lockVars
<1>4. CASE Awaited(w)
  <2>1. ~RunWaits(w.run) /\ ~cancelling[w.run]
    BY <1>4 DEF Awaited, RunWaits
  <2>2. ASSUME NEW p \in {"done", "streaming"}, phase' = [phase EXCEPT ![w.run] = p],
               waiters' = waiters
        PROVE  Line' /\ Held'
    BY <1>1, <1>2, <2>1, <2>2, RunGoesOn DEF OnlyRun, Queueing
  <2>3. ASSUME NEW p \in {"erroring", "finishing"}, phase' = [phase EXCEPT ![w.run] = p],
               waiters' = Append(waiters, w.run)
        PROVE  Line' /\ Held'
    BY <1>1, <1>2, <2>1, <2>3, RunQueues DEF OnlyRun, Queueing
  <2> QED
    BY <1>4, <2>2, <2>3, WriteSteps DEF WriteMoves
<1>5. Awaited(w) \/ UNCHANGED <<phase, waiters>>
  BY WriteSteps DEF WriteMoves
<1> QED
  BY <1>3, <1>4, <1>5

LEMMA CrashLine ==
    ASSUME LockInv, Crash
    PROVE  Line' /\ Held'
<1>1. \A c \in Clients : at'[c] = "idle"
  BY DEF Crash
<1>2. \A r \in Runs : ~RunWaits(r)'
  BY DEF Crash, RunWaits, Done, Finished
<1>3. InLine' = {}
  BY <1>1, <1>2, WhoWaits DEF Waiting
<1>4. Once(<<>>) /\ Members(<<>>) = {}
  BY DEF Once, Members
<1>5. waiters' = <<>> /\ holder' = Nobody
  BY DEF Crash
<1> QED
  BY <1>3, <1>4, <1>5 DEF Line, Held, Once, Members

\* Every step keeps the lock's queue.
LEMMA LockStep ==
    ASSUME LockInv, Next
    PROVE  Line' /\ Held'
<1> DEFINE Goal == Line' /\ Held'
<1>w. (\A r \in Runs : RunWaits(r)' <=> RunWaits(r)) \/ ~(UNCHANGED <<phase, cancelling>>)
  BY DEF RunWaits
<1>1. ASSUME NEW c \in Clients, NEW k \in Keys,
             NEW op \in {"attaching", "starting", "stopping"}, Call(c, op, k)
      PROVE  Goal
  BY <1>1, RequestQueues DEF Call, Waiting, runVars
<1>2. ASSUME NEW c \in Clients, NEW k \in Keys, Attach(c, k) PROVE Goal
  BY <1>w, <1>2, RequestServed DEF Attach, Subscribe, Waiting
<1>3. ASSUME NEW c \in Clients, NEW k \in Keys, AttachMisses(c, k) PROVE Goal
  BY <1>w, <1>3, RequestServed DEF AttachMisses, Waiting, runVars
<1>4. ASSUME NEW c \in Clients, NEW k \in Keys, Join(c, k) PROVE Goal
  BY <1>w, <1>4, RequestServed DEF Join, Subscribe, Waiting
<1>5. ASSUME NEW c \in Clients, NEW k \in Keys, Start(c, k) PROVE Goal
  BY <1>5, StartLine
<1>6. ASSUME NEW c \in Clients, NEW k \in Keys, Stop(c, k) PROVE Goal
  BY <1>6, StopLine
<1>7. ASSUME NEW c \in Clients, ReadReplay(c) PROVE Goal
  BY <1>7, RequestMoves DEF ReadReplay, Waiting, runVars, lockVars
<1>8. ASSUME NEW c \in Clients, ReadNothing(c) PROVE Goal
  BY <1>8, RequestMoves DEF ReadNothing, Ends, Waiting, runVars, lockVars
<1>9. ASSUME NEW c \in Clients, ReadExpired(c) PROVE Goal
  BY <1>9, RequestMoves DEF ReadExpired, Waiting, runVars, lockVars
<1>10. ASSUME NEW c \in Clients, UnlinkExpired(c) PROVE Goal
  BY <1>10, RequestMoves DEF UnlinkExpired, Ends, Waiting, runVars, lockVars
<1>11. ASSUME NEW c \in Clients, DeleteReplay(c) \/ DeleteFails(c) PROVE Goal
  BY <1>11, DeleteLine
<1>12. ASSUME NEW c \in Clients, Leave(c) PROVE Goal
  BY <1>12, RequestQueues DEF Leave, Waiting, runVars
<1>13. ASSUME NEW c \in Clients, Detach(c) PROVE Goal
  BY <1>w, <1>13, RequestServed DEF Detach, Ends, Waiting
<1>14. ASSUME NEW c \in Clients, StopReturns(c) PROVE Goal
  BY <1>14, RequestMoves DEF StopReturns, Ends, Waiting, runVars, lockVars
<1>15. ASSUME NEW r \in Runs, Block(r) PROVE Goal
  BY <1>15, RunQueues DEF Block, RunWaits, OnlyRun, Queueing, clientVars
<1>16. ASSUME NEW r \in Runs, Enter(r) PROVE Goal
  BY <1>16, RunServed DEF Enter, OnlyRun, Queueing, clientVars
<1>17. ASSUME NEW r \in Runs, Emit(r) PROVE Goal
  BY <1>17, RunServed DEF Emit, OnlyRun, Queueing
<1>18. ASSUME NEW r \in Runs, StreamEnds(r) PROVE Goal
  BY <1>18, RunQueues DEF StreamEnds, RunWaits, OnlyRun, Queueing, clientVars
<1>19. ASSUME NEW r \in Runs, StreamRaises(r) PROVE Goal
  BY <1>19, RunQueues DEF StreamRaises, RunWaits, OnlyRun, Queueing, clientVars
<1>20. ASSUME NEW r \in Runs, ReportError(r) PROVE Goal
  BY <1>20, ReportErrorLine
<1>21. ASSUME NEW r \in Runs, Finalise(r) PROVE Goal
  BY <1>21, RunServed DEF Finalise, OnlyRun, Queueing
<1>22. ASSUME NEW r \in Runs, RaiseCancelled(r) \/ GiveUpWrite(r) PROVE Goal
  BY <1>22, CancelledLine
<1>23. ASSUME NEW w \in writes, WriteLands(w) \/ WriteFails(w) PROVE Goal
  BY <1>23, WriteLine
<1>24. ASSUME NEW k \in Keys, PruneReplay(k) PROVE Goal
  BY <1>24, LockUntouched DEF PruneReplay, lockVars, clientVars, runVars
<1>25. ASSUME GetStatus PROVE Goal
  BY <1>25, LockUntouched DEF GetStatus, lockVars, clientVars, runVars
<1>26. ASSUME Crash PROVE Goal
  BY <1>26, CrashLine
<1> QED
  BY <1>1, <1>2, <1>3, <1>4, <1>5, <1>6, <1>7, <1>8, <1>9, <1>10, <1>11,
     <1>12, <1>13, <1>14, <1>15, <1>16, <1>17, <1>18, <1>19, <1>20, <1>21,
     <1>22, <1>23, <1>24, <1>25, <1>26 DEF Next, ClientSteps, RunSteps

\* For any number of clients and chats, whatever is stopped, cancelled or
\* fails while it queues: the lock's queue is who waits for it, and its holder
\* is a request at work.  Nobody waits in vain for somebody who is gone.
THEOREM LockReachesWaiters == Spec => []LockIsPassedOn
<1>1. Init => Held /\ Line
  <2> SUFFICES ASSUME Init PROVE Held /\ Line
    OBVIOUS
  <2>1. InLine = {}
    BY DEF Init, InLine, Waiting
  <2>2. Once(<<>>) /\ Members(<<>>) = {}
    BY DEF Once, Members
  <2> QED
    BY <2>1, <2>2 DEF Init, Held, Line
<1>2. IInv /\ (Held /\ Line) /\ [Next]_vars => (Held /\ Line)'
  <2>1. ASSUME IInv, Held, Line, Next PROVE Held' /\ Line'
    BY <2>1, LockStep DEF LockInv
  <2>2. ASSUME IInv, Held, Line, UNCHANGED vars PROVE Held' /\ Line'
    BY <2>2, LockUntouched DEF LockInv, vars, lockVars, runVars, clientVars
  <2> QED
    BY <2>1, <2>2
<1>3. Held /\ Line => LockIsPassedOn
  BY DEF Held, Line, Once, Members, LockIsPassedOn
<1> QED
  BY <1>1, <1>2, <1>3, Invariance, PTL DEF Spec
=============================================================================
