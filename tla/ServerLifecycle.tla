--------------------------- MODULE ServerLifecycle ---------------------------
(***************************************************************************)
(* The server process, run() of backend/cmd/server/main.go: it acquires     *)
(* what it depends on step by step, serves, and on a signal stops taking    *)
(* connections, waits for the requests in progress for a bounded time and   *)
(* returns through its deferred calls.  The serving goroutine, the signal   *)
(* and the requests run beside it.  net/http is external: Shutdown closes   *)
(* the listener at once and returns when no request is left or its context  *)
(* ends.  Every startup step is bounded by its own timeouts; a request may  *)
(* run on for ever.                                                         *)
(***************************************************************************)
EXTENDS Naturals, Sequences, FiniteSets

CONSTANTS Requests,
          Steps,          \* the startup steps that may fail, in order
          Closable,       \* the steps whose resource a deferred call closes
          ShutdownLimit   \* the context of Shutdown, in ticks

VARIABLES
    main,      \* "starting", "serving", "draining", "joining", "returned"
    acquired,  \* startup steps that succeeded
    open,      \* resources that are open
    listener,  \* the serving goroutine: "none", "opening", "up", "closed", "broken"
    signalled, \* the process was asked to stop
    request,   \* each request: "none", "running" or "over"
    clock,     \* how long Shutdown has waited
    result     \* the errors run returned or will return; {"none"} before

processVars == <<main, acquired, open, listener, signalled, request, clock, result>>

Running == {r \in Requests : request[r] = "running"}

ProcessInit ==
    /\ main = "starting"
    /\ acquired = 0
    /\ open = {}
    /\ listener = "none"
    /\ signalled = FALSE
    /\ request = [r \in Requests |-> "none"]
    /\ clock = 0
    /\ result = {"none"}

\* run returns: the deferred calls close what is open
ReturnFromRun(errors) ==
    /\ main' = "returned"
    /\ result' = errors
    /\ open' = {}

StartupFails ==
    /\ main = "starting"
    /\ acquired < Len(Steps)
    /\ ReturnFromRun({"startup"})
    /\ UNCHANGED <<acquired, listener, signalled, request, clock>>

\* the next dependency is there; a signal is not looked at yet
StartupStep ==
    /\ main = "starting"
    /\ acquired < Len(Steps)
    /\ acquired' = acquired + 1
    /\ open' = open \cup ({Steps[acquired + 1]} \cap Closable)
    /\ UNCHANGED <<main, listener, signalled, request, clock, result>>

Serve ==
    /\ main = "starting"
    /\ acquired = Len(Steps)
    /\ main' = "serving"
    /\ listener' = "opening"
    /\ UNCHANGED <<acquired, open, signalled, request, clock, result>>

\* ListenAndServe in its goroutine: it listens, unless Shutdown came first;
\* the address may be taken, and a listener may fail later
ListenAndServe ==
    /\ main # "returned"
    /\ \/ listener = "opening" /\ listener' = IF main = "serving" THEN "up" ELSE "closed"
       \/ listener \in {"opening", "up"} /\ listener' = "broken"
    /\ UNCHANGED <<main, acquired, open, signalled, request, clock, result>>

\* NotifyContext is there once the configuration is read; before, a signal
\* ends the process, which holds nothing yet
Signal ==
    /\ ~signalled
    /\ acquired > 0
    /\ main # "returned"
    /\ signalled' = TRUE
    /\ UNCHANGED <<main, acquired, open, listener, request, clock, result>>

Accept(r) ==
    /\ listener = "up"
    /\ main # "returned"
    /\ request[r] = "none"
    /\ request' = [request EXCEPT ![r] = "running"]
    /\ UNCHANGED <<main, acquired, open, listener, signalled, clock, result>>

Finish(r) ==
    /\ request[r] = "running"
    /\ main # "returned"
    /\ request' = [request EXCEPT ![r] = "over"]
    /\ UNCHANGED <<main, acquired, open, listener, signalled, clock, result>>

\* the select: the serving goroutine's error
ServeFailed ==
    /\ main = "serving"
    /\ listener = "broken"
    /\ ReturnFromRun({"serve"})
    /\ UNCHANGED <<acquired, listener, signalled, request, clock>>

\* Mutant of BeginShutdown: the listener is left to the end of the process.
BeginShutdownListening ==
    /\ main = "serving"
    /\ signalled
    /\ main' = "draining"
    /\ clock' = 0
    /\ UNCHANGED <<acquired, open, listener, signalled, request, result>>

\* the select: the signal; Shutdown closes a listener that is there
BeginShutdown ==
    /\ main = "serving"
    /\ signalled
    /\ main' = "draining"
    /\ listener' = IF listener = "up" THEN "closed" ELSE listener
    /\ clock' = 0
    /\ UNCHANGED <<acquired, open, signalled, request, result>>

\* Mutant of Drained: Shutdown is not waited for.
DrainedAtOnce ==
    /\ main = "draining"
    /\ main' = "joining"
    /\ UNCHANGED <<acquired, open, listener, signalled, request, clock, result>>

Drained ==
    /\ main = "draining"
    /\ Running = {}
    /\ main' = "joining"
    /\ UNCHANGED <<acquired, open, listener, signalled, request, clock, result>>

\* Shutdown's context ends: requests are left behind, and that is an error
DrainTimesOut ==
    /\ main = "draining"
    /\ clock = ShutdownLimit
    /\ Running # {}
    /\ main' = "joining"
    /\ result' = {"shutdown"}
    /\ UNCHANGED <<acquired, open, listener, signalled, request, clock>>

\* err = <-serveErrors: ErrServerClosed is no error, another one is
Join ==
    /\ main = "joining"
    /\ listener \in {"closed", "broken"}
    /\ ReturnFromRun((result \ {"none"}) \cup (IF listener = "broken" THEN {"serve"} ELSE {}))
    /\ UNCHANGED <<acquired, listener, signalled, request, clock>>

\* a request may take longer than Shutdown waits (30 s against 10 s)
Tick ==
    /\ main = "draining"
    /\ Running # {}
    /\ clock < ShutdownLimit
    /\ clock' = clock + 1
    /\ UNCHANGED <<main, acquired, open, listener, signalled, request, result>>

Main == \/ StartupFails \/ StartupStep \/ Serve \/ ServeFailed \/ BeginShutdown
        \/ Drained \/ DrainTimesOut \/ Join

ProcessNext ==
    \/ Main
    \/ ListenAndServe
    \/ Signal
    \/ \E r \in Requests : Accept(r) \/ Finish(r)
    \/ Tick

\* main and the serving goroutine run on, and time passes; no request need finish
ProcessSpec ==
    /\ ProcessInit
    /\ [][ProcessNext]_processVars
    /\ WF_processVars(Main)
    /\ WF_processVars(listener = "opening" /\ ListenAndServe)
    /\ WF_processVars(Tick)

-----------------------------------------------------------------------------
(* Properties.                                                             *)

(* A request runs on open dependencies: what startup acquired is closed    *)
(* only when no request is running, or after Shutdown gave up on those     *)
(* that are, or after serving broke.                                       *)
DependenciesOutliveRequests ==
    Running # {} /\ open # {s \in Closable : \E i \in 1..Len(Steps) : Steps[i] = s}
      => main = "returned" /\ result # {}

(* run reports success only when it was asked to stop, serving had not     *)
(* failed and every request got its answer.                                *)
SuccessIsCleanStop ==
    main = "returned" /\ result = {} => signalled /\ listener = "closed" /\ Running = {}

(* The order of a stop: requests first, what they use after, and success   *)
(* only when nothing was cut short.                                        *)
StopIsOrderly == DependenciesOutliveRequests /\ SuccessIsCleanStop

(* A process asked to stop stops, whatever its requests do: a signal that  *)
(* came during startup is not lost.                                        *)
SignalStops == signalled ~> main = "returned"
=============================================================================
