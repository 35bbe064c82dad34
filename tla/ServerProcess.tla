---------------------------- MODULE ServerProcess ---------------------------
(***************************************************************************)
(* The server process from start to exit (cmd/siqlah/main.go): main, which *)
(* sits in ListenAndServe and closes the store when it returns, the signal *)
(* goroutine, which cancels the context and calls Shutdown with a grace    *)
(* period of 10 s, the batcher, and the handlers of ingest requests.       *)
(*                                                                         *)
(* net/http and database/sql are external.  Shutdown closes the listener   *)
(* and waits for the requests under way; ListenAndServe returns as soon as *)
(* Shutdown is called.  Close waits for the store call under way, and      *)
(* later calls fail.  When main returns the process is gone, whatever the  *)
(* other goroutines are doing.                                             *)
(***************************************************************************)
EXTENDS Naturals

CONSTANTS
    Connections,  \* concurrent ingest requests
    MaxRequests,  \* bound: requests ever accepted
    MaxStarts     \* bound: starts of the process

ASSUME ServerAssumption ==
    /\ MaxRequests \in Nat
    /\ MaxStarts \in Nat

VARIABLES
    main,       \* "listening", "returned" from ListenAndServe, "closed", "exited"
    signal,     \* the signal goroutine: "waiting", "cancelled", "shutdown"
    grace,      \* TRUE when the 10 s of Shutdown have passed
    batcher,    \* "select", "build", "done"
    conn,       \* the request on each connection, 0 for none, and its stage
    requested,  \* requests accepted so far, which name them
    stored,     \* the requests whose receipt is in the table
    answers,    \* history: <<request, status>> that was answered
    cut,        \* history: requests the exit cut off within the grace period
    starts      \* starts so far

serverVars ==
    <<main, signal, grace, batcher, conn, requested, stored, answers, cut, starts>>

Free == [stage |-> "free", request |-> 0]

Running == main # "exited"

-----------------------------------------------------------------------------
(* An ingest request.                                                      *)

\* The listener is open until Shutdown closes it.
Accept(c) ==
    /\ main = "listening" /\ signal # "shutdown"
    /\ conn[c] = Free
    /\ requested < MaxRequests
    /\ requested' = requested + 1
    /\ conn' = [conn EXCEPT ![c] = [stage |-> "accepted", request |-> requested']]
    /\ UNCHANGED <<main, signal, grace, batcher, stored, answers, cut, starts>>

\* Mutant: the error of AppendReceipt is not looked at.
StoreReceiptUnchecked(c) ==
    /\ Running
    /\ conn[c].stage = "accepted"
    /\ stored' = IF main = "closed" THEN stored ELSE stored \cup {conn[c].request}
    /\ conn' = [conn EXCEPT ![c].stage = "201"]
    /\ UNCHANGED <<main, signal, grace, batcher, requested, answers, cut, starts>>

\* AppendReceipt; an error once the store is closed, and perhaps before.
StoreReceipt(c) ==
    /\ Running
    /\ conn[c].stage = "accepted"
    /\ \/ /\ main # "closed"
          /\ stored' = stored \cup {conn[c].request}
          /\ conn' = [conn EXCEPT ![c].stage = "201"]
       \/ /\ conn' = [conn EXCEPT ![c].stage = "500"]
          /\ UNCHANGED stored
    /\ UNCHANGED <<main, signal, grace, batcher, requested, answers, cut, starts>>

Respond(c) ==
    /\ Running
    /\ conn[c].stage \in {"201", "500"}
    /\ answers' = answers \cup {<<conn[c].request, conn[c].stage>>}
    /\ conn' = [conn EXCEPT ![c] = Free]
    /\ UNCHANGED <<main, signal, grace, batcher, requested, stored, cut, starts>>

-----------------------------------------------------------------------------
(* The batcher: with a tick and the cancellation both ready, select takes  *)
(* either.  A build ends by itself, or with an error once the store is     *)
(* closed.                                                                 *)

BatcherTick ==
    /\ Running
    /\ batcher = "select"
    /\ batcher' = "build"
    /\ UNCHANGED <<main, signal, grace, conn, requested, stored, answers, cut, starts>>

BuildReturns ==
    /\ Running
    /\ batcher = "build"
    /\ batcher' = "select"
    /\ UNCHANGED <<main, signal, grace, conn, requested, stored, answers, cut, starts>>

BatcherDone ==
    /\ Running
    /\ batcher = "select"
    /\ signal # "waiting"
    /\ batcher' = "done"
    /\ UNCHANGED <<main, signal, grace, conn, requested, stored, answers, cut, starts>>

-----------------------------------------------------------------------------
(* The shutdown.                                                           *)

\* SIGINT or SIGTERM, and cancel().
Cancel ==
    /\ Running
    /\ signal = "waiting"
    /\ signal' = "cancelled"
    /\ UNCHANGED <<main, grace, batcher, conn, requested, stored, answers, cut, starts>>

\* httpSrv.Shutdown closes the listener and begins to wait.
Shutdown ==
    /\ Running
    /\ signal = "cancelled"
    /\ signal' = "shutdown"
    /\ UNCHANGED <<main, grace, batcher, conn, requested, stored, answers, cut, starts>>

\* shutCtx expires.
GraceEnds ==
    /\ Running
    /\ signal = "shutdown"
    /\ ~grace
    /\ grace' = TRUE
    /\ UNCHANGED <<main, signal, batcher, conn, requested, stored, answers, cut, starts>>

\* ListenAndServe returns http.ErrServerClosed.
ListenReturns ==
    /\ main = "listening"
    /\ signal = "shutdown"
    /\ main' = "returned"
    /\ UNCHANGED <<signal, grace, batcher, conn, requested, stored, answers, cut, starts>>

\* The deferred st.Close().
Close ==
    /\ main = "returned"
    /\ main' = "closed"
    /\ UNCHANGED <<signal, grace, batcher, conn, requested, stored, answers, cut, starts>>

UnderWay == {conn[c].request : c \in {d \in Connections : conn[d] # Free}}

\* main returns and the process is gone.
Exit ==
    /\ main = "closed"
    /\ main' = "exited"
    /\ cut' = IF grace THEN cut ELSE cut \cup UnderWay
    /\ conn' = [c \in Connections |-> Free]
    /\ UNCHANGED <<signal, grace, batcher, requested, stored, answers, starts>>

\* ListenAndServe returns another error: os.Exit(1), without the deferred calls.
ListenFails ==
    /\ main = "listening"
    /\ main' = "exited"
    /\ conn' = [c \in Connections |-> Free]
    /\ UNCHANGED <<signal, grace, batcher, requested, stored, answers, cut, starts>>

Start ==
    /\ main = "exited"
    /\ starts < MaxStarts
    /\ starts' = starts + 1
    /\ main' = "listening"
    /\ signal' = "waiting"
    /\ grace' = FALSE
    /\ batcher' = "select"
    /\ UNCHANGED <<conn, requested, stored, answers, cut>>

-----------------------------------------------------------------------------
ServerInit ==
    /\ main = "exited"
    /\ signal = "waiting"
    /\ grace = FALSE
    /\ batcher = "select"
    /\ conn = [c \in Connections |-> Free]
    /\ requested = 0
    /\ stored = {}
    /\ answers = {}
    /\ cut = {}
    /\ starts = 0

ServerNext ==
    \/ Start
    \/ \E c \in Connections : Accept(c) \/ StoreReceipt(c) \/ Respond(c)
    \/ BatcherTick
    \/ BuildReturns
    \/ BatcherDone
    \/ Cancel
    \/ Shutdown
    \/ GraceEnds
    \/ ListenReturns
    \/ Close
    \/ Exit
    \/ ListenFails

ServerSpec == ServerInit /\ [][ServerNext]_serverVars

-----------------------------------------------------------------------------
(* Properties.                                                             *)

(* An answer is the truth whenever the process stops: a receipt that was   *)
(* answered with 201 is in the table for good, and one that was answered   *)
(* with 500, because the store was closed under its handler, never is.     *)
AnswersAreTruthful ==
    \A a \in answers : (a[2] = "201") <=> (a[1] \in stored)

(* CHANGELOG.md: "Graceful shutdown on SIGINT/SIGTERM".  A request that    *)
(* was accepted is answered, unless it takes longer than the grace period  *)
(* that main gives to Shutdown.                                            *)
ShutdownIsGraceful == cut = {}
=============================================================================
