---------------------------- MODULE TalosClient ----------------------------
(***************************************************************************)
(* The shared client of the Talos API (pkg/talosclient/client.go).  All    *)
(* goroutines of the process call through the one pointer c.talos, and a   *)
(* call that fails may replace the client behind it, without a lock.       *)
(*                                                                         *)
(* GetNodeMetadata, GetNodeSystemInfo and GetNodeIfaces differ only in the *)
(* resource they ask for.                                                  *)
(***************************************************************************)
CONSTANT Caller         \* goroutines that call through the client

VARIABLES
    talos,      \* what c.talos points to: a "good", "stale" or "closed" client
    call        \* call[g]: where the current call of g is, or how it ended

clientVars == <<talos, call>>

Goto(g, step) == call' = [call EXCEPT ![g] = step]

----------------------------------------------------------------------------

\* The credentials a client was created with expire or are rotated.
Expire ==
    /\ talos = "good"
    /\ talos' = "stale"
    /\ UNCHANGED call

\* The request of one attempt, through the client of the moment.
GetSucceeds(g) ==
    /\ call[g] = "get" /\ talos = "good"
    /\ Goto(g, "ok")
    /\ UNCHANGED talos

\* A client that is stale or closed, also one closed by another goroutine while
\* the request was under way, or a node that does not answer.
GetFails(g) ==
    /\ call[g] = "get"
    /\ Goto(g, "version")
    /\ UNCHANGED talos

\* refreshTalosClient finds the client in order and returns nil; the error of
\* the request is then returned as it is, which ends the retry.
VersionSucceeds(g) ==
    /\ call[g] = "version" /\ talos = "good"
    /\ Goto(g, "failed")
    /\ UNCHANGED talos

\* New fails: an ExpectedError, which is retried until the 10 seconds are over.
NewFails(g) ==
    /\ call[g] = "version"
    /\ Goto(g, "get") \/ Goto(g, "failed")
    /\ UNCHANGED talos

NewSucceeds(g) ==
    /\ call[g] = "version"
    /\ Goto(g, "close")
    /\ UNCHANGED talos

\* c.talos.Close(), whichever client c.talos is by now.
CloseOld(g) ==
    /\ call[g] = "close"
    /\ talos' = "closed"
    /\ Goto(g, "set")

\* Mutant: assignment and Close in the other order.
StoreThenClose(g) ==
    /\ call[g] = "set"
    /\ talos' = "closed"
    /\ Goto(g, "failed")

\* c.talos = talos.talos; the call still returns the error of its request.
StoreNew(g) ==
    /\ call[g] = "set"
    /\ talos' = "good"
    /\ Goto(g, "failed")

----------------------------------------------------------------------------

ClientInit ==
    /\ talos = "good"
    /\ call = [g \in Caller |-> "none"]

CallStep(g) ==
    \/ GetSucceeds(g) \/ GetFails(g) \/ VersionSucceeds(g)
    \/ NewFails(g) \/ NewSucceeds(g) \/ CloseOld(g) \/ StoreNew(g)

----------------------------------------------------------------------------
(* Properties.                                                             *)

ClientTypeOK ==
    /\ talos \in {"good", "stale", "closed"}
    /\ call \in [Caller -> {"none", "get", "version", "close", "set", "ok", "failed"}]

\* However the calls of several goroutines overlap, c.talos is a closed client
\* only while one of them is between Close and the assignment of
\* refreshTalosClient: nobody is left with a client that another closed.
NotLeftClosed ==
    talos = "closed" => \E g \in Caller : call[g] = "set"
=============================================================================
