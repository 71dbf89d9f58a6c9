------------------------------ MODULE Compute ------------------------------
(***************************************************************************)
(* The two local models of a session and the gate they share:              *)
(* internal/ingest (compute_gate.go, embed_python.go, embed_http.go,       *)
(* llm.go) and the servers in python/.                                     *)
(*                                                                         *)
(* A call is one EmbedBatch, EmbedQuery or Complete.  The embedder's child *)
(* is supervised; the language model's child is started by the call that   *)
(* needs it, ends itself when idle, and shares its port with the next one: *)
(* a child that finds the port taken exits.  callMu and mu are only taken  *)
(* with the gate in hand and are left out.                                 *)
(***************************************************************************)
EXTENDS Naturals, Sequences, SequencesExt, FiniteSets

CONSTANTS Embeds, Completes,    \* the calls
          Free,                 \* nobody holds the gate
          MaxCalls,             \* bound: calls made
          MaxExits,             \* bound: exits of the embedder's child
          MaxLoads,             \* bound: exits of the language model's child
          MaxFastFailures       \* 5 in the code

Call == Embeds \cup Completes

ASSUME ComputeAssumption == Embeds \cap Completes = {} /\ Free \notin Call

VARIABLES gate,         \* Free, or the call in the slot
          queue,        \* the calls blocked in Acquire: Go serves them in order
          call,         \* per call: where it is
          server,       \* per kind: the child process
          working,      \* calls whose computation runs in a child
          ready,        \* PythonEmbedder.ready
          gaveUp,       \* PythonEmbedder.gaveUp
          fastFailures,
          probe,        \* pollHealth: the answer it is about to store
          calls, exits, loads,
          abandoned     \* history: a client gave up on a computation

gateVars == <<gate, queue>>
superVars == <<ready, gaveUp, fastFailures, probe>>
boundVars == <<calls, exits, loads>>
vars == <<gateVars, call, server, working, superVars, boundVars, abandoned>>

Kinds == {"embed", "llm"}
KindOf(c) == IF c \in Embeds THEN "embed" ELSE "llm"

TypeOK ==
    /\ gate \in Call \cup {Free}
    /\ queue \in Seq(Call)
    /\ call \in [Call -> {"idle", "waiting", "holding", "cold", "sent"}]
    /\ server \in [Kinds -> {"off", "loading", "up", "exited"}]
    /\ working \subseteq Call
    /\ ready \in BOOLEAN /\ gaveUp \in BOOLEAN
    /\ fastFailures \in 0 .. MaxFastFailures
    /\ probe \in {"none", "healthy", "unhealthy"}
    /\ calls \in 0 .. MaxCalls /\ exits \in 0 .. MaxExits /\ loads \in 0 .. MaxLoads
    /\ abandoned \in BOOLEAN

Init ==
    /\ gate = Free /\ queue = <<>>
    /\ call = [c \in Call |-> "idle"]
    /\ server = [k \in Kinds |-> "off"]
    /\ working = {}
    /\ ready = FALSE /\ gaveUp = FALSE /\ fastFailures = 0 /\ probe = "none"
    /\ calls = 0 /\ exits = 0 /\ loads = 0
    /\ abandoned = FALSE
-----------------------------------------------------------------------------
Healthy(k) == server[k] = "up"

\* ComputeGate.Acquire: the slot, or the end of the line.
Acquire(c) ==
    IF gate = Free
    THEN gate' = c /\ call' = [call EXCEPT ![c] = "holding"] /\ UNCHANGED queue
    ELSE queue' = Append(queue, c) /\ call' = [call EXCEPT ![c] = "waiting"] /\ UNCHANGED gate

\* Receiving from a full channel lets its first blocked sender in.
PassGate(status) ==
    IF queue = <<>>
    THEN gate' = Free /\ call' = status /\ UNCHANGED queue
    ELSE /\ gate' = Head(queue)
         /\ queue' = Tail(queue)
         /\ call' = [status EXCEPT ![Head(queue)] = "holding"]

\* The call returns, and its deferred Release with it.
Return(c) == PassGate([call EXCEPT ![c] = "idle"])

\* Ready is looked at once before the gate; a call that is refused changes nothing.
Begin(c) ==
    /\ call[c] = "idle"
    /\ calls < MaxCalls
    /\ calls' = calls + 1
    /\ c \in Embeds => ready
    /\ Acquire(c)
    /\ UNCHANGED <<server, working, superVars, exits, loads, abandoned>>

\* Mutant: Release is deferred before Acquire is known to have succeeded.
CancelReleases(c) ==
    /\ call[c] = "waiting"
    /\ LET others == Remove(queue, c) IN
           IF others = <<>>
           THEN gate' = Free /\ queue' = others /\ call' = [call EXCEPT ![c] = "idle"]
           ELSE /\ gate' = Head(others)
                /\ queue' = Tail(others)
                /\ call' = [call EXCEPT ![c] = "idle", ![Head(others)] = "holding"]
    /\ UNCHANGED <<server, working, superVars, boundVars, abandoned>>

\* The context of a caller that still waits is cancelled: no slot, no Release.
CancelWaiting(c) ==
    /\ call[c] = "waiting"
    /\ \E i \in DOMAIN queue : queue[i] = c /\ queue' = RemoveAt(queue, i)
    /\ call' = [call EXCEPT ![c] = "idle"]
    /\ UNCHANGED <<gate, server, working, superVars, boundVars, abandoned>>

\* Mutant: the early return forgets the gate.
EmbedKeepsGate(c) ==
    /\ call[c] = "holding" /\ c \in Embeds
    /\ ~ ready
    /\ call' = [call EXCEPT ![c] = "idle"]
    /\ UNCHANGED <<gateVars, server, working, superVars, boundVars, abandoned>>

\* Ready is looked at again under the gate: the child may have gone meanwhile.
EmbedNotReady(c) ==
    /\ call[c] = "holding" /\ c \in Embeds
    /\ ~ ready
    /\ Return(c)
    /\ UNCHANGED <<server, working, superVars, boundVars, abandoned>>

\* The request.  A server that is not there refuses it; one that loads says 503.
Post(c) ==
    IF Healthy(KindOf(c))
    THEN /\ call' = [call EXCEPT ![c] = "sent"]
         /\ working' = working \cup {c}
         /\ UNCHANGED gateVars
    ELSE Return(c) /\ UNCHANGED working

EmbedSend(c) ==
    /\ call[c] = "holding" /\ c \in Embeds
    /\ ready
    /\ Post(c)
    /\ UNCHANGED <<server, superVars, boundVars, abandoned>>

\* ensureUpLocked: nothing to do when the model answers; otherwise a child is
\* started - which exits at once if an earlier one still holds the port.
EnsureUp(c) ==
    /\ call[c] = "holding" /\ c \in Completes
    /\ call' = [call EXCEPT ![c] = "cold"]
    /\ server' = IF server["llm"] \in {"off", "exited"}
                 THEN [server EXCEPT !["llm"] = "loading"] ELSE server
    /\ UNCHANGED <<gateVars, working, superVars, boundVars, abandoned>>

CompleteSend(c) ==
    /\ call[c] = "cold"
    /\ Healthy("llm")
    /\ Post(c)
    /\ UNCHANGED <<server, superVars, boundVars, abandoned>>

\* The model did not load in time: the call fails, its child is left to load.
StartTimeout(c) ==
    /\ call[c] = "cold"
    /\ Return(c)
    /\ abandoned' = (abandoned \/ server["llm"] = "loading")
    /\ UNCHANGED <<server, working, superVars, boundVars>>

\* The answer, or the broken connection when the child went away.
Answer(c) ==
    /\ call[c] = "sent"
    /\ working' = working \ {c}
    /\ Return(c)
    /\ UNCHANGED <<server, superVars, boundVars, abandoned>>

\* The HTTP client gives up after three or five minutes, or its context ends;
\* the server computes on.
ClientTimeout(c) ==
    /\ call[c] = "sent"
    /\ Return(c)
    /\ abandoned' = (abandoned \/ c \in working)
    /\ UNCHANGED <<server, working, superVars, boundVars>>

\* The server is done with a request nobody waits for.
Discard(c) ==
    /\ c \in working /\ call[c] # "sent"
    /\ working' = working \ {c}
    /\ UNCHANGED <<gateVars, call, server, superVars, boundVars, abandoned>>
-----------------------------------------------------------------------------
(* The children and the embedder's supervisor. *)

OfKind(k) == {c \in Call : KindOf(c) = k}

Loaded(k) ==
    /\ server[k] = "loading"
    /\ server' = [server EXCEPT ![k] = "up"]
    /\ UNCHANGED <<gateVars, call, working, superVars, boundVars, abandoned>>

\* Crash, failed load or - the language model - 180 idle seconds.
Exits(k) ==
    /\ server[k] \in {"loading", "up"}
    /\ IF k = "embed" THEN exits < MaxExits /\ exits' = exits + 1 /\ UNCHANGED loads
                      ELSE loads < MaxLoads /\ loads' = loads + 1 /\ UNCHANGED exits
    /\ server' = [server EXCEPT ![k] = "exited"]
    /\ working' = working \ OfKind(k)
    /\ UNCHANGED <<gateVars, call, superVars, calls, abandoned>>

\* supervise: runOnce starts the child ...
StartEmbedder ==
    /\ server["embed"] = "off" /\ ~ gaveUp
    /\ server' = [server EXCEPT !["embed"] = "loading"]
    /\ UNCHANGED <<gateVars, call, working, superVars, boundVars, abandoned>>

\* ... and returns once it is gone: not ready, and one more fast failure
\* unless it ran for more than a minute.
Reap ==
    /\ server["embed"] = "exited"
    /\ ready' = FALSE
    /\ \E fast \in BOOLEAN :
           /\ fastFailures' = IF fast THEN fastFailures + 1 ELSE 0
           /\ gaveUp' = (fastFailures' >= MaxFastFailures)
    /\ server' = [server EXCEPT !["embed"] = "off"]
    /\ UNCHANGED <<gateVars, call, working, probe, boundVars, abandoned>>

\* pollHealth: ask, then store the answer; it ends when the supervisor gave up.
AskHealth ==
    /\ probe = "none" /\ ~ gaveUp
    /\ probe' = IF Healthy("embed") THEN "healthy" ELSE "unhealthy"
    /\ UNCHANGED <<gateVars, call, server, working, ready, gaveUp, fastFailures,
                   boundVars, abandoned>>

\* Mutant: only good news are stored.
StoreHealthy ==
    /\ probe # "none"
    /\ ready' = (ready \/ probe = "healthy")
    /\ probe' = "none"
    /\ UNCHANGED <<gateVars, call, server, working, gaveUp, fastFailures, boundVars, abandoned>>

StoreHealth ==
    /\ probe # "none"
    /\ ready' = (probe = "healthy")
    /\ probe' = "none"
    /\ UNCHANGED <<gateVars, call, server, working, gaveUp, fastFailures, boundVars, abandoned>>

Proceed(c) ==
    \/ EmbedNotReady(c)
    \/ EmbedSend(c)
    \/ EnsureUp(c)
    \/ CompleteSend(c)
    \/ StartTimeout(c)
    \/ Answer(c)
    \/ ClientTimeout(c)

Supervise == StartEmbedder \/ Reap \/ AskHealth \/ StoreHealth

Next ==
    \/ \E c \in Call : Begin(c) \/ CancelWaiting(c) \/ Proceed(c) \/ Discard(c)
    \/ \E k \in Kinds : Loaded(k) \/ Exits(k)
    \/ Supervise

Spec == Init /\ [][Next]_vars

\* A call in the gate goes on: each of its waits has a timeout.  The
\* supervisor and the health poll are loops on timers.
Fairness ==
    /\ \A c \in Call : WF_vars(Proceed(c))
    /\ WF_vars(StartEmbedder) /\ WF_vars(Reap)
    /\ WF_vars(AskHealth) /\ WF_vars(StoreHealth)

FairSpec == Spec /\ Fairness
-----------------------------------------------------------------------------
(* Large local-model jobs take turns: while no client has given up on a    *)
(* computation, at most one runs - a batch, a completion or the load of    *)
(* the language model - through crashes, restarts, refused and cancelled   *)
(* calls (compute_gate.go; main.go where the gate is made).                *)
OneBigJob ==
    ~ abandoned =>
        Cardinality(working) + (IF server["llm"] = "loading" THEN 1 ELSE 0) <= 1

(* Whatever happens to a child, every call that waits for the gate returns *)
(* in the end: nobody keeps the gate for good (llm.go Complete,            *)
(* embed_python.go EmbedBatch).                                            *)
CallsReturn == \A c \in Call : (call[c] # "idle") ~> (call[c] = "idle")

(* The embedder does not stay ready after its child is gone, unless the    *)
(* supervisor has given up: then the poll that would notice has ended as   *)
(* well (embed_python.go supervise, pollHealth).                           *)
ReadyFollows ==
    (ready /\ ~ Healthy("embed")) ~> (gaveUp \/ ~ ready \/ Healthy("embed"))
=============================================================================
