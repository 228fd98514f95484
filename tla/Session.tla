------------------------------ MODULE Session ------------------------------
(***************************************************************************)
(* One session: RunContainer attaches, starts, waits for and removes the   *)
(* main container.  Next to the main goroutine run the signal handler with *)
(* a goroutine per forwarded signal, the SIGTSTP handler, and the pump of  *)
(* the keyboard, whose Ctrl+Z also suspends.  A suspended tpd is stopped   *)
(* altogether, until the shell continues it.                               *)
(*                                                                         *)
(* A step is one engine call or one operation on a channel, a lock, the    *)
(* terminal or a flag.                                                     *)
(*                                                                         *)
(* Source: internal/runtime/docker_run.go.                                 *)
(***************************************************************************)
EXTENDS Naturals

CONSTANTS
  MaxSignals,  \* bound: signals the process gets, other than SIGTSTP
  Nobody       \* the owner of a free suspend gate

Goroutines == {"main", "handler", "stopper", "keys"}
Suspenders == {"stopper", "keys"}

ASSUME MaxSignalsAssumption == MaxSignals \in Nat
ASSUME NobodyAssumption == Nobody \notin Suspenders

VARIABLES
  pc,        \* pc[g]: what goroutine g does next
  tty,       \* oldState is not nil: stdin is a terminal and the session has one
  term,      \* the terminal: raw or cooked
  frozen,    \* tpd is stopped by SIGSTOP or SIGTTIN
  front,     \* the shell has given tpd the terminal
  ctr,       \* the container: created, running, exited, removed
  failed,    \* who made the last attempt at removal that failed
  out,       \* the output pump: none, copy, done
  armed,     \* a resume awaits output
  sent,      \* signals so far
  sigs,      \* signals in sigCh, which has room for one
  stops,     \* signals in stopCh, which has room for one
  graces,    \* fallback goroutines waiting for the end of their grace period
  attempts,  \* fallback goroutines about to remove
  gate,      \* who has the suspend gate
  paused,    \* input is paused
  chunk,     \* what the keyboard pump has read: text or ctrlZ
  ready,     \* the channel the keyboard pump waits for is closed
  late       \* history: it was read since input was last paused

ttyVars == <<tty, term, frozen, front>>
ctrVars == <<ctr, failed, out, armed>>
sigVars == <<sent, sigs, stops, graces, attempts>>
keyVars == <<chunk, ready, late>>
vars == <<pc, ttyVars, ctrVars, sigVars, gate, paused, keyVars>>

(* Where the deferred calls of RunContainer have got to.                   *)
Unwinding == {"restore", "remove", "returned"}
RunDone == {"grace", "handback"} \cup Unwinding
ChannelsClosed == {"join"} \cup RunDone
ShuttingDown == {"close"} \cup ChannelsClosed
ConnClosed == {"shut"} \cup ShuttingDown

MainPcs == {"raw", "attach", "start", "wait", "drain", "conn"} \cup ConnClosed
HandlerPcs == {"none", "idle", "check", "forward", "done"}
(* Inside suspend, past its second look at shuttingDown.                   *)
SuspendedPcs == {"pause", "stop", "cook", "freeze", "claim", "uncook", "cont",
                 "await", "reassert", "resume"}
SuspendPcs == {"enter", "gate", "again", "release"} \cup SuspendedPcs
StopperPcs == {"none", "idle", "check", "done"} \cup SuspendPcs
KeysPcs == {"none", "read", "take", "wait", "write", "end"} \cup SuspendPcs

TypeOK ==
  /\ pc \in [Goroutines -> MainPcs \cup HandlerPcs \cup StopperPcs \cup KeysPcs]
  /\ pc["main"] \in MainPcs /\ pc["handler"] \in HandlerPcs
  /\ pc["stopper"] \in StopperPcs /\ pc["keys"] \in KeysPcs
  /\ term \in {"raw", "cooked"} /\ ctr \in {"created", "running", "exited", "removed"}
  /\ tty \in BOOLEAN /\ frozen \in BOOLEAN /\ front \in BOOLEAN
  /\ armed \in BOOLEAN /\ paused \in BOOLEAN
  /\ ready \in BOOLEAN /\ late \in BOOLEAN
  /\ failed \in {"none", "fallback", "main"} /\ out \in {"none", "copy", "done"}
  /\ sent \in 0..MaxSignals /\ sigs \in 0..1 /\ stops \in 0..1
  /\ graces \in 0..MaxSignals /\ attempts \in 0..MaxSignals
  /\ gate \in Suspenders \cup {Nobody} /\ chunk \in {"text", "ctrlZ"}

At(g, p) == pc[g] = p
Goto(g, p) == pc' = [pc EXCEPT ![g] = p]
(* Goroutine g runs and is at p.                                           *)
Runs(g, p) == ~frozen /\ At(g, p)

-----------------------------------------------------------------------------
(* The end of the container.                                               *)

(* Mutant: an attempt counts, not its success.                             *)
CleanupTried(who) ==
  IF ctr = "removed" \/ failed # "none" THEN UNCHANGED <<ctr, failed>>
  ELSE \/ ctr' = "removed" /\ failed' = "none"
       \/ failed' = who /\ UNCHANGED ctr

(* cleanupOnce: remove by force, unless it is done; failing changes        *)
(* nothing.                                                                *)
Cleanup(who) ==
  IF ctr = "removed" THEN UNCHANGED <<ctr, failed>>
  ELSE \/ ctr' = "removed" /\ failed' = "none"
       \/ failed' = who /\ UNCHANGED ctr

-----------------------------------------------------------------------------
(* The main goroutine.                                                     *)

SetRaw ==
  /\ Runs("main", "raw")
  /\ \/ tty /\ term' = "raw" /\ Goto("main", "attach")
     \/ ~tty /\ UNCHANGED term /\ Goto("main", "attach")
     \/ tty /\ UNCHANGED term /\ Goto("main", "remove")
  /\ UNCHANGED <<tty, frozen, front, ctrVars, sigVars, gate, paused, keyVars>>

(* Attached, it listens for signals and starts their handlers.             *)
Attach ==
  /\ Runs("main", "attach")
  /\ \/ pc' = [pc EXCEPT !["main"] = "start", !["handler"] = "idle",
                         !["stopper"] = IF tty THEN "idle" ELSE "done"]
     \/ Goto("main", "restore")
  /\ UNCHANGED <<ttyVars, ctrVars, sigVars, gate, paused, keyVars>>

Start ==
  /\ Runs("main", "start")
  /\ \/ /\ ctr = "created" /\ ctr' = "running" /\ out' = "copy"
        /\ pc' = [pc EXCEPT !["main"] = "wait", !["keys"] = "read"]
     \/ Goto("main", "shut") /\ UNCHANGED <<ctr, out>>
  /\ UNCHANGED <<ttyVars, failed, armed, sigVars, gate, paused, keyVars>>

(* ContainerWait answers when the container does not run, or with an error.*)
WaitReturns ==
  /\ Runs("main", "wait")
  /\ Goto("main", "drain")
  /\ UNCHANGED <<ttyVars, ctrVars, sigVars, gate, paused, keyVars>>

Drain ==
  /\ Runs("main", "drain") /\ out = "done"
  /\ Goto("main", "conn")
  /\ UNCHANGED <<ttyVars, ctrVars, sigVars, gate, paused, keyVars>>

(* closeConn; shuttingDown is set; the signal channels are closed.         *)
CloseConn ==
  /\ Runs("main", "conn") /\ Goto("main", "shut")
  /\ UNCHANGED <<ttyVars, ctrVars, sigVars, gate, paused, keyVars>>

ShutDown ==
  /\ Runs("main", "shut") /\ Goto("main", "close")
  /\ UNCHANGED <<ttyVars, ctrVars, sigVars, gate, paused, keyVars>>

CloseChannels ==
  /\ Runs("main", "close") /\ Goto("main", "join")
  /\ UNCHANGED <<ttyVars, ctrVars, sigVars, gate, paused, keyVars>>

(* Mutant: the handlers are not waited for.                                *)
JoinNobody ==
  /\ Runs("main", "join") /\ Goto("main", "grace")
  /\ UNCHANGED <<ttyVars, ctrVars, sigVars, gate, paused, keyVars>>

(* signalWG.Wait; runDone is closed.                                       *)
JoinHandlers ==
  /\ Runs("main", "join") /\ At("handler", "done") /\ At("stopper", "done")
  /\ Goto("main", "grace")
  /\ UNCHANGED <<ttyVars, ctrVars, sigVars, gate, paused, keyVars>>

JoinFallbacks ==
  /\ Runs("main", "grace") /\ graces = 0 /\ attempts = 0
  /\ Goto("main", "handback")
  /\ UNCHANGED <<ttyVars, ctrVars, sigVars, gate, paused, keyVars>>

(* The suspend gate, taken and given back.                                 *)
PassGate ==
  /\ Runs("main", "handback") /\ gate = Nobody
  /\ Goto("main", "restore")
  /\ UNCHANGED <<ttyVars, ctrVars, sigVars, gate, paused, keyVars>>

RestoreTerminal ==
  /\ Runs("main", "restore") /\ Goto("main", "remove")
  /\ term' = IF tty THEN "cooked" ELSE term
  /\ UNCHANGED <<tty, frozen, front, ctrVars, sigVars, gate, paused, keyVars>>

Remove ==
  /\ Runs("main", "remove") /\ Goto("main", "returned")
  /\ Cleanup("main")
  /\ UNCHANGED <<ttyVars, out, armed, sigVars, gate, paused, keyVars>>

-----------------------------------------------------------------------------
(* Signals.                                                                *)

(* Signals are noticed from Attach until the channels are closed.          *)
Noticed == pc["main"] \notin {"raw", "attach"} \cup ChannelsClosed /\ pc["handler"] # "none"

(* What does not fit into the channel is dropped.                          *)
Signal ==
  /\ Noticed /\ sent < MaxSignals
  /\ sent' = sent + 1 /\ sigs' = 1
  /\ UNCHANGED <<pc, ttyVars, ctrVars, stops, graces, attempts, gate, paused, keyVars>>

StopSignal ==
  /\ Noticed /\ tty /\ stops = 0 /\ stops' = 1
  /\ UNCHANGED <<pc, ttyVars, ctrVars, sent, sigs, graces, attempts, gate, paused, keyVars>>

TakeSignal ==
  /\ Runs("handler", "idle") /\ sigs = 1
  /\ sigs' = 0 /\ Goto("handler", "check")
  /\ UNCHANGED <<ttyVars, ctrVars, sent, stops, graces, attempts, gate, paused, keyVars>>

CheckSignal ==
  /\ Runs("handler", "check")
  /\ Goto("handler", IF pc["main"] \in ShuttingDown THEN "idle" ELSE "forward")
  /\ UNCHANGED <<ttyVars, ctrVars, sigVars, gate, paused, keyVars>>

(* Mutant: the signal is all the application gets.                         *)
ForwardOnly ==
  /\ Runs("handler", "forward") /\ Goto("handler", "idle")
  /\ UNCHANGED <<ttyVars, ctrVars, sigVars, gate, paused, keyVars>>

(* forwardSignalThenFallback: the application gets the signal, and a grace *)
(* period starts.                                                          *)
Forward ==
  /\ Runs("handler", "forward") /\ Goto("handler", "idle")
  /\ graces' = graces + 1
  /\ UNCHANGED <<ttyVars, ctrVars, sent, sigs, stops, attempts, gate, paused, keyVars>>

HandlerEnds ==
  /\ Runs("handler", "idle") /\ sigs = 0 /\ pc["main"] \in ChannelsClosed
  /\ Goto("handler", "done")
  /\ UNCHANGED <<ttyVars, ctrVars, sigVars, gate, paused, keyVars>>

(* The timer fires, which it may also do once runDone is closed.           *)
GraceOver ==
  /\ ~frozen /\ graces > 0
  /\ graces' = graces - 1 /\ attempts' = attempts + 1
  /\ UNCHANGED <<pc, ttyVars, ctrVars, sent, sigs, stops, gate, paused, keyVars>>

GraceCalledOff ==
  /\ ~frozen /\ graces > 0 /\ pc["main"] \in RunDone
  /\ graces' = graces - 1
  /\ UNCHANGED <<pc, ttyVars, ctrVars, sent, sigs, stops, attempts, gate, paused, keyVars>>

FallBack ==
  /\ ~frozen /\ attempts > 0
  /\ attempts' = attempts - 1
  /\ Cleanup("fallback")
  /\ UNCHANGED <<pc, ttyVars, out, armed, sent, sigs, stops, graces, gate, paused, keyVars>>

-----------------------------------------------------------------------------
(* Suspend and resume, called by the SIGTSTP handler and by the keyboard   *)
(* pump.                                                                   *)

TakeStop ==
  /\ Runs("stopper", "idle") /\ stops = 1
  /\ stops' = 0 /\ Goto("stopper", "check")
  /\ UNCHANGED <<ttyVars, ctrVars, sent, sigs, graces, attempts, gate, paused, keyVars>>

CheckStop ==
  /\ Runs("stopper", "check")
  /\ Goto("stopper", IF pc["main"] \in ShuttingDown THEN "idle" ELSE "enter")
  /\ UNCHANGED <<ttyVars, ctrVars, sigVars, gate, paused, keyVars>>

StopperEnds ==
  /\ Runs("stopper", "idle") /\ stops = 0 /\ pc["main"] \in ChannelsClosed
  /\ Goto("stopper", "done")
  /\ UNCHANGED <<ttyVars, ctrVars, sigVars, gate, paused, keyVars>>

(* suspend returns; the pump goes on with the rest of what it has read, if *)
(* there is more.                                                          *)
Return(s) ==
  \/ s = "stopper" /\ Goto(s, "idle") /\ UNCHANGED chunk
  \/ s = "keys" /\ Goto(s, "read") /\ UNCHANGED chunk
  \/ s = "keys" /\ Goto(s, "write") /\ chunk' \in {"text", "ctrlZ"}

Enter(s) ==
  /\ Runs(s, "enter")
  /\ \/ pc["main"] \in ShuttingDown /\ Return(s)
     \/ pc["main"] \notin ShuttingDown /\ Goto(s, "gate") /\ UNCHANGED chunk
  /\ UNCHANGED <<ttyVars, ctrVars, sigVars, gate, paused, ready, late>>

TakeGate(s) ==
  /\ Runs(s, "gate") /\ gate = Nobody
  /\ gate' = s /\ Goto(s, "again")
  /\ UNCHANGED <<ttyVars, ctrVars, sigVars, paused, keyVars>>

(* Mutant: no second look at shuttingDown.                                 *)
LookOnce(s) ==
  /\ Runs(s, "again") /\ Goto(s, "pause")
  /\ UNCHANGED <<ttyVars, ctrVars, sigVars, gate, paused, keyVars>>

LookAgain(s) ==
  /\ Runs(s, "again")
  /\ Goto(s, IF pc["main"] \in ShuttingDown THEN "release" ELSE "pause")
  /\ UNCHANGED <<ttyVars, ctrVars, sigVars, gate, paused, keyVars>>

PauseInput(s) ==
  /\ Runs(s, "pause") /\ Goto(s, "stop")
  /\ paused' = TRUE
  /\ UNCHANGED <<ttyVars, ctrVars, sigVars, gate, keyVars>>

(* The application has stopped itself or is told to; if telling it fails,  *)
(* tpd suspends all the same.                                              *)
StopApp(s) ==
  /\ Runs(s, "stop") /\ Goto(s, "cook")
  /\ UNCHANGED <<ttyVars, ctrVars, sigVars, gate, paused, keyVars>>

Cook(s) ==
  /\ Runs(s, "cook") /\ Goto(s, "freeze")
  /\ term' = "cooked"
  /\ UNCHANGED <<tty, frozen, front, ctrVars, sigVars, gate, paused, keyVars>>

Freeze(s) ==
  /\ Runs(s, "freeze") /\ Goto(s, "claim")
  /\ frozen' = TRUE /\ front' = FALSE
  /\ UNCHANGED <<tty, term, ctrVars, sigVars, gate, paused, keyVars>>

(* waitForForegroundTerminal: in the background it stops once more.        *)
Claim(s) ==
  /\ Runs(s, "claim")
  /\ \/ front /\ Goto(s, "uncook") /\ UNCHANGED frozen
     \/ ~front /\ frozen' = TRUE /\ UNCHANGED pc
  /\ UNCHANGED <<tty, term, front, ctrVars, sigVars, gate, paused, keyVars>>

Uncook(s) ==
  /\ Runs(s, "uncook") /\ Goto(s, "cont")
  /\ term' = "raw"
  /\ UNCHANGED <<tty, frozen, front, ctrVars, sigVars, gate, paused, keyVars>>

ContinueApp(s) ==
  /\ Runs(s, "cont") /\ Goto(s, "await")
  /\ armed' = TRUE
  /\ UNCHANGED <<ttyVars, ctr, failed, out, sigVars, gate, paused, keyVars>>

(* Mutant: no time-out.                                                    *)
AwaitOnlyOutput(s) ==
  /\ Runs(s, "await") /\ ~armed /\ Goto(s, "reassert")
  /\ UNCHANGED <<ttyVars, ctrVars, sigVars, gate, paused, keyVars>>

(* Output has come, or the time for it is over; then nobody listens for it *)
(* any more.                                                               *)
AwaitOutput(s) ==
  /\ Runs(s, "await") /\ Goto(s, "reassert")
  /\ armed' = FALSE
  /\ UNCHANGED <<ttyVars, ctr, failed, out, sigVars, gate, paused, keyVars>>

Reassert(s) ==
  /\ Runs(s, "reassert") /\ Goto(s, "resume")
  /\ term' = "raw"
  /\ UNCHANGED <<tty, frozen, front, ctrVars, sigVars, gate, paused, keyVars>>

(* resumeInput closes the channel the pump may be waiting for.             *)
ResumeInput(s) ==
  /\ Runs(s, "resume") /\ Goto(s, "release")
  /\ paused' = FALSE /\ ready' = TRUE /\ late' = FALSE
  /\ UNCHANGED <<ttyVars, ctrVars, sigVars, gate, chunk>>

(* Mutant: the gate is not given back.                                     *)
KeepGate(s) ==
  /\ Runs(s, "release") /\ Return(s)
  /\ UNCHANGED <<ttyVars, ctrVars, sigVars, gate, paused, ready, late>>

ReleaseGate(s) ==
  /\ Runs(s, "release") /\ Return(s)
  /\ gate' = Nobody
  /\ UNCHANGED <<ttyVars, ctrVars, sigVars, paused, ready, late>>

Suspend(s) ==
  \/ Enter(s) \/ TakeGate(s) \/ LookAgain(s) \/ PauseInput(s) \/ StopApp(s) \/ Cook(s)
  \/ Freeze(s) \/ Claim(s) \/ Uncook(s) \/ ContinueApp(s) \/ AwaitOutput(s) \/ Reassert(s)
  \/ ResumeInput(s) \/ ReleaseGate(s)

-----------------------------------------------------------------------------
(* The keyboard pump.                                                      *)

ReadKeys ==
  /\ Runs("keys", "read") /\ Goto("keys", "take")
  /\ chunk' \in {"text", "ctrlZ"} /\ late' = paused
  /\ UNCHANGED <<ttyVars, ctrVars, sigVars, gate, paused, ready>>

(* Mutant: the channel is the one from before the read.                    *)
TakeOldChannel ==
  /\ Runs("keys", "take") /\ Goto("keys", "wait")
  /\ UNCHANGED <<ttyVars, ctrVars, sigVars, gate, paused, keyVars>>

(* waitForInput takes the channel, then waits for it to be closed.         *)
TakeChannel ==
  /\ Runs("keys", "take") /\ Goto("keys", "wait")
  /\ ready' = ~paused
  /\ UNCHANGED <<ttyVars, ctrVars, sigVars, gate, paused, chunk, late>>

WaitForInput ==
  /\ Runs("keys", "wait") /\ ready
  /\ Goto("keys", "write")
  /\ UNCHANGED <<ttyVars, ctrVars, sigVars, gate, paused, keyVars>>

(* What was read goes to the application, or the connection is no more or  *)
(* fails.                                                                  *)
WriteKeys ==
  /\ Runs("keys", "write")
  /\ \/ /\ pc["main"] \notin ConnClosed
        /\ Goto("keys", IF tty /\ chunk = "ctrlZ" THEN "enter" ELSE "read")
     \/ Goto("keys", "end")
  /\ chunk' = "text"
  /\ UNCHANGED <<ttyVars, ctrVars, sigVars, gate, paused, ready, late>>

KeysEnd ==
  /\ Runs("keys", "read") /\ Goto("keys", "end")
  /\ UNCHANGED <<ttyVars, ctrVars, sigVars, gate, paused, keyVars>>

-----------------------------------------------------------------------------
(* Surroundings: the application, the output pump, the shell.              *)

AppExits ==
  /\ ctr = "running" /\ ctr' = "exited"
  /\ UNCHANGED <<pc, ttyVars, failed, out, armed, sigVars, gate, paused, keyVars>>

(* Output notes itself as long as the output pump copies.                  *)
AppWrites ==
  /\ ~frozen /\ out = "copy" /\ armed
  /\ armed' = FALSE
  /\ UNCHANGED <<pc, ttyVars, ctr, failed, out, sigVars, gate, paused, keyVars>>

OutputEnds ==
  /\ ~frozen /\ out = "copy" /\ ctr # "running"
  /\ out' = "done" /\ armed' = FALSE
  /\ UNCHANGED <<pc, ttyVars, ctr, failed, sigVars, gate, paused, keyVars>>

(* Copying fails, while the application runs or not: the pump says so and  *)
(* ends, and the session goes on without it.                               *)
OutputFails ==
  /\ ~frozen /\ out = "copy"
  /\ out' = "done" /\ armed' = FALSE
  /\ UNCHANGED <<pc, ttyVars, ctr, failed, sigVars, gate, paused, keyVars>>

(* fg or bg.                                                               *)
Continue ==
  /\ frozen /\ frozen' = FALSE /\ front' \in BOOLEAN
  /\ UNCHANGED <<pc, tty, term, ctrVars, sigVars, gate, paused, keyVars>>

-----------------------------------------------------------------------------
Init ==
  /\ pc = [g \in Goroutines |-> IF g = "main" THEN "raw" ELSE "none"]
  /\ tty \in BOOLEAN /\ term = "cooked" /\ frozen = FALSE /\ front = TRUE
  /\ ctr = "created" /\ failed = "none" /\ out = "none" /\ armed = FALSE
  /\ sent = 0 /\ sigs = 0 /\ stops = 0 /\ graces = 0 /\ attempts = 0
  /\ gate = Nobody /\ paused = FALSE
  /\ chunk = "text" /\ ready = TRUE /\ late = FALSE

MainStep == \/ SetRaw \/ Attach \/ Start \/ Drain \/ CloseConn \/ ShutDown \/ CloseChannels
            \/ JoinHandlers \/ JoinFallbacks \/ PassGate \/ RestoreTerminal \/ Remove
            \/ (WaitReturns /\ ctr # "running")
HandlerStep == TakeSignal \/ CheckSignal \/ Forward \/ HandlerEnds
FallbackStep == GraceOver \/ GraceCalledOff \/ FallBack
StopperStep == TakeStop \/ CheckStop \/ StopperEnds \/ Suspend("stopper")
KeysStep == TakeChannel \/ WaitForInput \/ WriteKeys \/ Suspend("keys")

Next == \/ MainStep \/ WaitReturns \/ HandlerStep \/ FallbackStep \/ StopperStep \/ KeysStep
        \/ ReadKeys \/ KeysEnd \/ OutputEnds \/ OutputFails
        \/ Signal \/ StopSignal \/ AppExits \/ AppWrites \/ Continue

Spec == Init /\ [][Next]_vars

FairSpec ==
  /\ Spec
  /\ WF_vars(MainStep) /\ WF_vars(HandlerStep) /\ WF_vars(FallbackStep)
  /\ WF_vars(StopperStep) /\ WF_vars(KeysStep) /\ WF_vars(OutputEnds)

-----------------------------------------------------------------------------
(* Properties.                                                             *)

(* The shell gets its terminal back whenever tpd is stopped and when the   *)
(* session is over, for good; a running session has it raw except inside a *)
(* suspension.  A suspension may begin as the session ends.                *)
TerminalMode ==
  /\ frozen \/ pc["main"] \in {"remove", "returned"} => term = "cooked"
  /\ tty /\ pc["main"] \notin {"raw", "remove", "returned"} /\ gate = Nobody => term = "raw"

(* Once the shutdown has passed, no helper signals, removes, suspends or   *)
(* touches the terminal: only main's own deferred calls are left.          *)
QuietAfterShutdown ==
  pc["main"] \in Unwinding =>
    /\ pc["handler"] \in {"none", "done"} /\ graces = 0 /\ attempts = 0
    /\ \A s \in Suspenders : pc[s] \notin SuspendedPcs

(* A session that returns has removed its container, or has tried again at *)
(* the very end, whatever a fallback's removal met before.                 *)
NoOrphan == pc["main"] = "returned" => ctr = "removed" \/ failed = "main"

(* What is typed after tpd took the terminal back waits until the          *)
(* application was continued.                                              *)
InputWaits == pc["keys"] = "write" => ~late

(* Where the application has ended, or never started, the session returns, *)
(* however its shutdown meets signals, suspensions and grace periods;      *)
(* unless the shell has stopped tpd and does not continue it.              *)
SessionEnds == (ctr \in {"exited", "removed"} \/ pc["main"] = "shut") ~> (pc["main"] = "returned" \/ frozen)

(* A suspension ends, and input goes on, even if the application stays     *)
(* silent.                                                                 *)
InputResumes == paused ~> (~paused \/ frozen)

(* A signal ends the container, even if the application ignores it: within *)
(* the grace period or by force, unless the engine refuses.                *)
SignalEndsContainer ==
  (pc["handler"] = "forward") ~> (ctr \in {"exited", "removed"} \/ failed # "none" \/ frozen)
=============================================================================
