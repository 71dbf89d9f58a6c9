---------------------------- MODULE ComputeProofs ----------------------------
(* Large local-model jobs take turns, for any number of calls.  OneBigJob is  *)
(* not inductive: that a call that gets the gate finds no computation under   *)
(* way follows from whose computations there are, and the model that loads    *)
(* being waited for by the call in the gate.                                  *)
EXTENDS Compute, TLAPS, FiniteSetTheorems

Inside == {"holding", "cold", "sent"}

GateTypeOK ==
    /\ gate \in Call \cup {Free}
    /\ queue \in Seq(Call)
    /\ call \in [Call -> {"idle", "waiting"} \cup Inside]
    /\ server \in [Kinds -> {"off", "loading", "up", "exited"}]
    /\ working \subseteq Call

\* The call in the slot is the one past Acquire.
OneInside == \A c \in Call : call[c] \in Inside <=> gate = c

\* Until a client gives up, somebody waits for everything that is computed.
Awaited ==
    ~ abandoned =>
        /\ \A c \in working : call[c] = "sent"
        /\ server["llm"] = "loading" => \E c \in Call : call[c] = "cold"

GateInv == GateTypeOK /\ OneInside /\ Awaited

\* Nothing is computed: so it is when the call in the gate has sent nothing.
Quiet == ~ abandoned => working = {} /\ server["llm"] # "loading"

(* Nothing is computed for a call that has the gate and has not sent its      *)
(* request, or for nobody (compute_gate.go).                                  *)
LEMMA NothingRuns ==
    ASSUME GateInv, gate = Free \/ \E c \in Call : gate = c /\ call[c] = "holding"
    PROVE  Quiet
BY ComputeAssumption DEF GateInv, GateTypeOK, OneInside, Awaited, Quiet, Inside

(* Passing the gate on keeps one call inside, whoever is first in the queue   *)
(* (compute_gate.go Release).                                                 *)
LEMMA PassKeeps ==
    ASSUME GateTypeOK, OneInside, NEW c \in Call, gate = c, Return(c)
    PROVE  /\ gate' \in Call \cup {Free} /\ queue' \in Seq(Call)
           /\ call' \in [Call -> {"idle", "waiting"} \cup Inside]
           /\ OneInside'
<1>1. CASE queue = <<>>
    BY <1>1, ComputeAssumption DEF Return, PassGate, GateTypeOK, OneInside, Inside
<1>2. CASE queue # <<>>
    <2> DEFINE h == Head(queue)
    <2>1. h \in Call /\ Tail(queue) \in Seq(Call)
        BY <1>2 DEF GateTypeOK
    <2>2. gate' = h /\ queue' = Tail(queue)
        BY <1>2 DEF Return, PassGate
    <2>3. \A d \in Call : call'[d] = IF d = h THEN "holding" ELSE IF d = c THEN "idle" ELSE call[d]
        BY <1>2, <2>1 DEF Return, PassGate, GateTypeOK
    <2>4. call' \in [Call -> {"idle", "waiting"} \cup Inside]
        BY <1>2, <2>1 DEF Return, PassGate, GateTypeOK, Inside
    <2> HIDE DEF h
    <2>5. OneInside'
        BY <2>1, <2>2, <2>3 DEF OneInside, Inside
    <2> QED BY <2>1, <2>2, <2>4, <2>5
<1> QED BY <1>1, <1>2

(* A return that leaves nothing under way keeps the invariant.                *)
LEMMA ReturnKeeps ==
    ASSUME GateInv, NEW c \in Call, call[c] \in Inside, Return(c),
           server' = server, working' \subseteq working, Quiet'
    PROVE  GateInv'
<1>1. gate = c
    BY DEF GateInv, OneInside
<1> QED BY <1>1, PassKeeps DEF GateInv, GateTypeOK, Awaited, Quiet

(* A session starts with the gate free and nothing computed.                  *)
LEMMA Initially == Init => GateInv
<1> SUFFICES ASSUME Init PROVE GateInv
    OBVIOUS
<1>1. GateTypeOK
    BY DEF Init, GateTypeOK, Inside, Kinds
<1>2. OneInside /\ Awaited
    BY ComputeAssumption DEF Init, OneInside, Awaited, Inside, Kinds
<1> QED BY <1>1, <1>2 DEF GateInv

(* Asking for the gate, and giving up while waiting for it (Acquire).         *)
LEMMA AskingKeeps ==
    ASSUME GateInv, NEW c \in Call, Begin(c) \/ CancelWaiting(c)
    PROVE  GateInv'
<1> USE DEF GateInv, GateTypeOK
<1>1. CASE Begin(c)
    <2>1. call[c] = "idle" /\ UNCHANGED <<server, working, abandoned>>
        BY <1>1 DEF Begin
    <2>2. CASE gate = Free
        <3>1. gate' = c /\ call' = [call EXCEPT ![c] = "holding"] /\ queue' = queue
            BY <1>1, <2>2 DEF Begin, Acquire
        <3>2. Quiet
            BY <2>2, NothingRuns
        <3>3. GateTypeOK' /\ OneInside'
            BY <2>1, <2>2, <3>1, ComputeAssumption DEF OneInside, Inside
        <3>4. Awaited'
            BY <2>1, <3>2 DEF Awaited, Quiet
        <3> QED BY <3>3, <3>4
    <2>3. CASE gate # Free
        <3>1. queue' = Append(queue, c) /\ call' = [call EXCEPT ![c] = "waiting"] /\ gate' = gate
            BY <1>1, <2>3 DEF Begin, Acquire
        <3>2. GateTypeOK' /\ OneInside'
            BY <2>1, <3>1 DEF OneInside, Inside
        <3>3. Awaited'
            BY <2>1, <3>1 DEF Awaited
        <3> QED BY <3>2, <3>3
    <2> QED BY <2>2, <2>3
<1>2. CASE CancelWaiting(c)
    <2>1. PICK i \in DOMAIN queue : queue' = RemoveAt(queue, i)
        BY <1>2 DEF CancelWaiting
    <2>2. queue' \in Seq(Call)
        BY <2>1 DEF RemoveAt
    <2>3. /\ call[c] = "waiting" /\ call' = [call EXCEPT ![c] = "idle"]
          /\ UNCHANGED <<gate, server, working, abandoned>>
        BY <1>2 DEF CancelWaiting
    <2>4. GateTypeOK' /\ OneInside'
        BY <2>2, <2>3 DEF OneInside, Inside
    <2>5. Awaited'
        BY <2>3 DEF Awaited
    <2> QED BY <2>4, <2>5
<1> QED BY <1>1, <1>2

(* Sending a request with the gate in hand, when nothing else is computed.    *)
LEMMA PostKeeps ==
    ASSUME GateInv, NEW c \in Call, call[c] \in {"holding", "cold"}, Post(c), Quiet,
           UNCHANGED <<server, abandoned>>
    PROVE  GateInv'
<1>1. CASE Healthy(KindOf(c))
    <2>1. /\ call' = [call EXCEPT ![c] = "sent"]
          /\ working' = working \cup {c} /\ UNCHANGED <<gate, queue>>
        BY <1>1 DEF Post, gateVars
    <2>2. GateTypeOK' /\ OneInside'
        BY <2>1 DEF GateInv, GateTypeOK, OneInside, Inside
    <2>3. Awaited'
        BY <2>1 DEF GateInv, GateTypeOK, Awaited, Quiet, Inside
    <2> QED BY <2>2, <2>3 DEF GateInv
<1>2. CASE ~ Healthy(KindOf(c))
    <2>1. Return(c) /\ working' = working
        BY <1>2 DEF Post
    <2>2. Quiet'
        BY <2>1 DEF Quiet
    <2> QED BY <2>1, <2>2, ReturnKeeps DEF Inside
<1> QED BY <1>1, <1>2

(* What a call does with the gate in hand (EmbedBatch, Complete).             *)
LEMMA ProceedKeeps ==
    ASSUME GateInv, NEW c \in Call, Proceed(c)
    PROVE  GateInv'
<1>a. call[c] \in Inside => gate = c
    BY DEF GateInv, OneInside
<1>b. call[c] = "holding" => Quiet
    BY <1>a, NothingRuns DEF Inside
<1>c. call[c] \in {"cold", "sent"} /\ ~ abandoned => working \subseteq {c}
    BY <1>a DEF GateInv, GateTypeOK, OneInside, Awaited, Inside
<1>1. CASE EmbedNotReady(c)
    BY <1>1, <1>b, ReturnKeeps DEF EmbedNotReady, Quiet, Inside
<1>2. CASE EmbedSend(c)
    BY <1>2, <1>b, PostKeeps DEF EmbedSend
<1>3. CASE EnsureUp(c)
    <2>1. /\ call[c] = "holding" /\ call' = [call EXCEPT ![c] = "cold"]
          /\ UNCHANGED <<gate, queue, working, abandoned>>
          /\ server' = IF server["llm"] \in {"off", "exited"}
                       THEN [server EXCEPT !["llm"] = "loading"] ELSE server
        BY <1>3 DEF EnsureUp, gateVars
    <2>2. GateTypeOK' /\ OneInside'
        BY <2>1 DEF GateInv, GateTypeOK, OneInside, Inside, Kinds
    <2>3. Awaited'
        <3>1. ~ abandoned => working' = {}
            BY <2>1, <1>b DEF Quiet
        <3>2. call'[c] = "cold"
            BY <2>1 DEF GateInv, GateTypeOK
        <3> QED BY <3>1, <3>2, <2>1 DEF Awaited
    <2> QED BY <2>2, <2>3 DEF GateInv
<1>4. CASE CompleteSend(c)
    <2>1. call[c] = "cold" /\ server["llm"] = "up" /\ Post(c) /\ UNCHANGED <<server, abandoned>>
        BY <1>4 DEF CompleteSend, Healthy
    <2>2. Quiet
        BY <2>1, <1>c DEF GateInv, Awaited, Quiet
    <2> QED BY <2>1, <2>2, PostKeeps
<1>5. CASE StartTimeout(c)
    <2>1. call[c] = "cold" /\ Return(c) /\ UNCHANGED <<server, working>>
          /\ abandoned' = (abandoned \/ server["llm"] = "loading")
        BY <1>5 DEF StartTimeout
    <2>2. ~ abandoned => working = {}
        BY <2>1, <1>c DEF GateInv, Awaited
    <2>3. Quiet'
        BY <2>1, <2>2 DEF Quiet
    <2> QED BY <2>1, <2>3, ReturnKeeps DEF Inside
<1>d. call[c] = "sent" /\ ~ abandoned => server["llm"] # "loading"
    BY <1>a DEF GateInv, OneInside, Awaited, Inside
<1>6. CASE Answer(c)
    <2>1. call[c] = "sent" /\ Return(c) /\ working' = working \ {c} /\ UNCHANGED <<server, abandoned>>
        BY <1>6 DEF Answer
    <2>2. Quiet'
        BY <2>1, <1>c, <1>d DEF Quiet
    <2> QED BY <2>1, <2>2, ReturnKeeps DEF Inside
<1>7. CASE ClientTimeout(c)
    <2>1. call[c] = "sent" /\ Return(c) /\ UNCHANGED <<server, working>>
          /\ abandoned' = (abandoned \/ c \in working)
        BY <1>7 DEF ClientTimeout
    <2>2. Quiet'
        BY <2>1, <1>c, <1>d DEF Quiet
    <2> QED BY <2>1, <2>2, ReturnKeeps DEF Inside
<1> QED BY <1>1, <1>2, <1>3, <1>4, <1>5, <1>6, <1>7 DEF Proceed

(* The servers: a child that loads, exits or is started, and a computation    *)
(* that ends unheard (llm.go, embed_python.go supervise).                     *)
LEMMA ServersKeep ==
    ASSUME GateInv,
           \/ \E c \in Call : Discard(c)
           \/ \E k \in Kinds : Loaded(k) \/ Exits(k)
           \/ Supervise
    PROVE  GateInv'
<1> SUFFICES /\ UNCHANGED <<gate, queue, call, abandoned>>
             /\ working' \subseteq working
             /\ server' \in [Kinds -> {"off", "loading", "up", "exited"}]
             /\ server'["llm"] = "loading" => server["llm"] = "loading"
    BY DEF GateInv, GateTypeOK, OneInside, Awaited
<1> USE DEF gateVars, superVars, boundVars, GateInv, GateTypeOK, Kinds
<1>1. ASSUME NEW c \in Call, Discard(c)
      PROVE  UNCHANGED <<gate, queue, call, abandoned, server>> /\ working' \subseteq working
    BY <1>1 DEF Discard
<1>2. ASSUME NEW k \in Kinds, Loaded(k)
      PROVE  /\ UNCHANGED <<gate, queue, call, abandoned, working>>
             /\ server' = [server EXCEPT ![k] = "up"]
    BY <1>2 DEF Loaded
<1>3. ASSUME NEW k \in Kinds, Exits(k)
      PROVE  /\ UNCHANGED <<gate, queue, call, abandoned>> /\ working' \subseteq working
             /\ server' = [server EXCEPT ![k] = "exited"]
    BY <1>3 DEF Exits
<1>4. CASE StartEmbedder
    BY <1>4 DEF StartEmbedder
<1>5. CASE Reap
    BY <1>5 DEF Reap
<1>6. CASE AskHealth \/ StoreHealth
    BY <1>6 DEF AskHealth, StoreHealth
<1> QED BY <1>1, <1>2, <1>3, <1>4, <1>5, <1>6 DEF Supervise

(* The invariant holds of every reachable state.                              *)
LEMMA GateHeld == Spec => []GateInv
<1>1. GateInv /\ [Next]_vars => GateInv'
    <2> SUFFICES ASSUME GateInv, [Next]_vars PROVE GateInv'
        OBVIOUS
    <2>1. CASE \E c \in Call : Begin(c) \/ CancelWaiting(c)
        BY <2>1, AskingKeeps
    <2>2. CASE \E c \in Call : Proceed(c)
        BY <2>2, ProceedKeeps
    <2>3. CASE \/ \E c \in Call : Discard(c)
               \/ \E k \in Kinds : Loaded(k) \/ Exits(k)
               \/ Supervise
        BY <2>3, ServersKeep
    <2>4. CASE UNCHANGED vars
        BY <2>4 DEF vars, gateVars, GateInv, GateTypeOK, OneInside, Awaited
    <2> QED BY <2>1, <2>2, <2>3, <2>4 DEF Next
<1> QED BY <1>1, Initially, PTL DEF Spec

(* While no client has given up on a computation, a batch, a completion and   *)
(* the load of the language model never overlap, whatever the calls, crashes  *)
(* and restarts (main.go, compute_gate.go).                                   *)
THEOREM JobsTakeTurns == Spec => []OneBigJob
<1>1. GateInv => OneBigJob
    <2> SUFFICES ASSUME GateInv, ~ abandoned
                 PROVE  Cardinality(working) + (IF server["llm"] = "loading" THEN 1 ELSE 0) <= 1
        BY DEF OneBigJob
    <2>1. Cardinality({}) = 0
        BY FS_EmptySet
    <2>2. \A c \in working : gate = c /\ call[c] = "sent"
        BY DEF GateInv, GateTypeOK, OneInside, Awaited, Inside
    <2>3. CASE working = {}
        BY <2>1, <2>3
    <2>4. CASE working # {}
        <3>1. PICK c \in working : working = {c}
            BY <2>2, <2>4
        <3>2. Cardinality(working) = 1
            BY <3>1, FS_Singleton
        <3>3. server["llm"] # "loading"
            BY <2>2, <3>1 DEF GateInv, OneInside, Awaited, Inside
        <3> QED BY <3>2, <3>3
    <2> QED BY <2>3, <2>4
<1> QED BY <1>1, GateHeld, PTL

=============================================================================
