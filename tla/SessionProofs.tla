--------------------------- MODULE SessionProofs ---------------------------
(***************************************************************************)
(* Theorems about Session, for any number of signals.  The argument: only  *)
(* the owner of the suspend gate changes the terminal while helpers run    *)
(* (GateInv, TermInv); main passes the gate after shuttingDown is set, so  *)
(* whoever takes it later sees the flag and turns back (EndInv).           *)
(***************************************************************************)
EXTENDS Session, TLAPS

(* The conjuncts of TypeOK about flags.                                    *)
BooleansInv == /\ tty \in BOOLEAN /\ frozen \in BOOLEAN /\ front \in BOOLEAN /\ armed \in BOOLEAN
               /\ paused \in BOOLEAN /\ ready \in BOOLEAN /\ late \in BOOLEAN

(* Where a goroutine has the suspend gate, and where the terminal is given *)
(* away under it.                                                          *)
Gated == {"again", "release"} \cup SuspendedPcs
GivenAway == {"freeze", "claim", "uncook"}

GateInv == \A s \in Suspenders : pc[s] \in Gated <=> gate = s

(* Helpers start with Attach and Start, suspensions need a terminal.       *)
BeginInv ==
  /\ pc["main"] \in {"raw", "attach"} =>
       /\ pc["handler"] = "none" /\ pc["stopper"] = "none"
       /\ graces = 0 /\ attempts = 0
  /\ pc["main"] \in {"raw", "attach", "start"} => pc["keys"] = "none"
  /\ pc["main"] = "raw" => term = "cooked"
  /\ ~tty => pc["stopper"] \in {"none", "done"} /\ pc["keys"] \notin SuspendPcs

TermInv ==
  /\ tty /\ pc["main"] \notin {"raw", "remove", "returned"} =>
       (term = "cooked" <=> \E s \in Suspenders : pc[s] \in GivenAway)
  /\ ~tty => term = "cooked"
  /\ pc["main"] \in {"remove", "returned"} => term = "cooked"
  /\ frozen => \E s \in Suspenders : pc[s] = "claim"

(* What the shutdown has waited for is over.                               *)
EndInv ==
  /\ pc["main"] \in RunDone => pc["handler"] \in {"none", "done"} /\ pc["stopper"] \in {"none", "done"}
  /\ pc["main"] \in {"handback"} \cup Unwinding => graces = 0 /\ attempts = 0
  /\ pc["main"] \in Unwinding => \A s \in Suspenders : pc[s] \notin SuspendedPcs

(* Every fallback goroutine comes from a signal of its own.                *)
InHand == IF pc["handler"] \in {"check", "forward"} THEN 1 ELSE 0
CountInv == graces + attempts + sigs + InHand <= sent

(* What is read while input is paused is not written before it is resumed. *)
InputInv == late => paused /\ (pc["keys"] = "take" \/ (pc["keys"] = "wait" /\ ~ready))

SessionInv == /\ TypeOK /\ GateInv /\ BeginInv /\ TermInv /\ EndInv /\ CountInv
              /\ NoOrphan /\ InputInv

USE MaxSignalsAssumption, NobodyAssumption
    DEF vars, ttyVars, ctrVars, sigVars, keyVars, At, Goto, Runs, Goroutines, Suspenders

(* Flags stay flags.                                                       *)
LEMMA BooleansInvStep == SessionInv /\ [Next]_vars => BooleansInv'
<1> SUFFICES ASSUME SessionInv, [Next]_vars PROVE BooleansInv'  OBVIOUS
<1> USE DEF SessionInv, TypeOK, BooleansInv, Return
<1>1. CASE MainStep \/ WaitReturns
  BY <1>1, Zenon DEF MainStep, SetRaw, Attach, Start, WaitReturns, Drain,
     CloseConn, ShutDown, CloseChannels, JoinHandlers, JoinFallbacks, PassGate,
     RestoreTerminal, Remove
<1>2. CASE HandlerStep \/ FallbackStep
  BY <1>2, Zenon DEF HandlerStep, FallbackStep, TakeSignal, CheckSignal, Forward,
     HandlerEnds, GraceOver, GraceCalledOff, FallBack
<1>3. CASE TakeStop \/ CheckStop \/ StopperEnds
  BY <1>3, Zenon DEF TakeStop, CheckStop, StopperEnds
<1>4. CASE ReadKeys \/ TakeChannel \/ WaitForInput \/ WriteKeys \/ KeysEnd
  BY <1>4, Zenon DEF ReadKeys, TakeChannel, WaitForInput, WriteKeys, KeysEnd
<1>5. ASSUME NEW s \in Suspenders, Suspend(s) PROVE BooleansInv'
  BY <1>5, Zenon DEF Suspend, Enter, TakeGate, LookAgain, PauseInput, StopApp, Cook,
     Freeze, Claim, Uncook, ContinueApp, AwaitOutput, Reassert, ResumeInput,
     ReleaseGate
<1>6. CASE Signal \/ StopSignal \/ AppExits \/ AppWrites \/ OutputEnds \/ OutputFails
         \/ Continue
  BY <1>6, Zenon DEF Signal, StopSignal, AppExits, AppWrites, OutputEnds,
     OutputFails, Continue
<1>7. CASE UNCHANGED vars  BY <1>7, Zenon
<1> QED  BY <1>1, <1>2, <1>3, <1>4, <1>5, <1>6, <1>7 DEF Next, StopperStep, KeysStep

(* Every step keeps the types; a new grace period is a signal's (CountInv).*)
LEMMA TypeOKStep == SessionInv /\ [Next]_vars => TypeOK'
<1> SUFFICES ASSUME SessionInv, [Next]_vars PROVE TypeOK'  OBVIOUS
<1> USE DEF SessionInv, BooleansInv, TypeOK, CountInv, InHand, Return, Cleanup,
            Unwinding, RunDone, ChannelsClosed, ShuttingDown, ConnClosed, MainPcs,
            HandlerPcs, StopperPcs, KeysPcs, SuspendPcs, SuspendedPcs
<1>0. BooleansInv'  BY BooleansInvStep
<1>1. CASE MainStep \/ WaitReturns
  BY <1>1, <1>0 DEF MainStep, SetRaw, Attach, Start, WaitReturns, Drain,
     CloseConn, ShutDown, CloseChannels, JoinHandlers, JoinFallbacks, PassGate,
     RestoreTerminal, Remove
<1>2. CASE HandlerStep \/ FallbackStep
  BY <1>2, <1>0 DEF HandlerStep, FallbackStep, TakeSignal, CheckSignal, Forward,
     HandlerEnds, GraceOver, GraceCalledOff, FallBack
<1>3. CASE TakeStop \/ CheckStop \/ StopperEnds
  BY <1>3, <1>0 DEF TakeStop, CheckStop, StopperEnds
<1>4. CASE ReadKeys \/ TakeChannel \/ WaitForInput \/ WriteKeys \/ KeysEnd
  BY <1>4, <1>0 DEF ReadKeys, TakeChannel, WaitForInput, WriteKeys, KeysEnd
<1>5. ASSUME NEW s \in Suspenders, Suspend(s) PROVE TypeOK'
  BY <1>5, <1>0 DEF Suspend, Enter, TakeGate, LookAgain, PauseInput, StopApp, Cook,
     Freeze, Claim, Uncook, ContinueApp, AwaitOutput, Reassert, ResumeInput,
     ReleaseGate
<1>6. CASE Signal \/ StopSignal \/ AppExits \/ AppWrites \/ OutputEnds \/ OutputFails
         \/ Continue
  BY <1>6, <1>0 DEF Signal, StopSignal, AppExits, AppWrites, OutputEnds,
     OutputFails, Continue
<1>7. CASE UNCHANGED vars  BY <1>7, <1>0
<1> QED  BY <1>1, <1>2, <1>3, <1>4, <1>5, <1>6, <1>7 DEF Next, StopperStep, KeysStep

(* Only its owner is inside the suspend gate.                              *)
LEMMA GateInvStep == SessionInv /\ [Next]_vars => GateInv'
<1> SUFFICES ASSUME SessionInv, [Next]_vars PROVE GateInv'  OBVIOUS
<1> USE DEF SessionInv, TypeOK, GateInv, BeginInv, Gated, Return, SuspendedPcs,
            SuspendPcs
<1>1. CASE MainStep \/ WaitReturns
  BY <1>1 DEF MainStep, SetRaw, Attach, Start, WaitReturns, Drain, CloseConn,
     ShutDown, CloseChannels, JoinHandlers, JoinFallbacks, PassGate,
     RestoreTerminal, Remove
<1>2. CASE HandlerStep \/ FallbackStep
  BY <1>2 DEF HandlerStep, FallbackStep, TakeSignal, CheckSignal, Forward,
     HandlerEnds, GraceOver, GraceCalledOff, FallBack
<1>3. CASE TakeStop \/ CheckStop \/ StopperEnds
  BY <1>3 DEF TakeStop, CheckStop, StopperEnds
<1>4. CASE ReadKeys \/ TakeChannel \/ WaitForInput \/ WriteKeys \/ KeysEnd
  BY <1>4 DEF ReadKeys, TakeChannel, WaitForInput, WriteKeys, KeysEnd
<1>5. ASSUME NEW s \in Suspenders, Suspend(s) PROVE GateInv'
  <2>1. CASE Enter(s)  BY <2>1 DEF Enter
  <2>2. CASE TakeGate(s)  BY <2>2 DEF TakeGate
  <2>3. CASE LookAgain(s)  BY <2>3 DEF LookAgain
  <2>4. CASE PauseInput(s)  BY <2>4 DEF PauseInput
  <2>5. CASE StopApp(s)  BY <2>5 DEF StopApp
  <2>6. CASE Cook(s)  BY <2>6 DEF Cook
  <2>7. CASE Freeze(s)  BY <2>7 DEF Freeze
  <2>8. CASE Claim(s)  BY <2>8 DEF Claim
  <2>9. CASE Uncook(s)  BY <2>9 DEF Uncook
  <2>10. CASE ContinueApp(s)  BY <2>10 DEF ContinueApp
  <2>11. CASE AwaitOutput(s)  BY <2>11 DEF AwaitOutput
  <2>12. CASE Reassert(s)  BY <2>12 DEF Reassert
  <2>13. CASE ResumeInput(s)  BY <2>13 DEF ResumeInput
  <2>14. CASE ReleaseGate(s)  BY <2>14 DEF ReleaseGate
  <2> QED
    BY <1>5, <2>1, <2>2, <2>3, <2>4, <2>5, <2>6, <2>7, <2>8, <2>9, <2>10, <2>11,
       <2>12, <2>13, <2>14 DEF Suspend
<1>6. CASE Signal \/ StopSignal \/ AppExits \/ AppWrites \/ OutputEnds \/ OutputFails
         \/ Continue
  BY <1>6 DEF Signal, StopSignal, AppExits, AppWrites, OutputEnds,
     OutputFails, Continue
<1>7. CASE UNCHANGED vars  BY <1>7
<1> QED  BY <1>1, <1>2, <1>3, <1>4, <1>5, <1>6, <1>7 DEF Next, StopperStep, KeysStep

(* No helper runs before Attach, no keyboard pump before Start.            *)
LEMMA BeginInvStep == SessionInv /\ [Next]_vars => BeginInv'
<1> SUFFICES ASSUME SessionInv, [Next]_vars PROVE BeginInv'  OBVIOUS
<1> USE DEF SessionInv, TypeOK, BeginInv, Return, Noticed, Unwinding, RunDone,
            ChannelsClosed, ShuttingDown, ConnClosed, SuspendPcs, SuspendedPcs
<1>1. CASE MainStep \/ WaitReturns
  BY <1>1 DEF MainStep, SetRaw, Attach, Start, WaitReturns, Drain, CloseConn,
     ShutDown, CloseChannels, JoinHandlers, JoinFallbacks, PassGate,
     RestoreTerminal, Remove
<1>2. CASE HandlerStep \/ FallbackStep
  BY <1>2 DEF HandlerStep, FallbackStep, TakeSignal, CheckSignal, Forward,
     HandlerEnds, GraceOver, GraceCalledOff, FallBack
<1>3. CASE TakeStop \/ CheckStop \/ StopperEnds
  BY <1>3 DEF TakeStop, CheckStop, StopperEnds
<1>4. CASE ReadKeys \/ TakeChannel \/ WaitForInput \/ WriteKeys \/ KeysEnd
  BY <1>4 DEF ReadKeys, TakeChannel, WaitForInput, WriteKeys, KeysEnd
<1>5. ASSUME NEW s \in Suspenders, Suspend(s) PROVE BeginInv'
  BY <1>5 DEF Suspend, Enter, TakeGate, LookAgain, PauseInput, StopApp, Cook, Freeze,
     Claim, Uncook, ContinueApp, AwaitOutput, Reassert, ResumeInput, ReleaseGate
<1>6. CASE Signal \/ StopSignal \/ AppExits \/ AppWrites \/ OutputEnds \/ OutputFails
         \/ Continue
  BY <1>6 DEF Signal, StopSignal, AppExits, AppWrites, OutputEnds,
     OutputFails, Continue
<1>7. CASE UNCHANGED vars  BY <1>7
<1> QED  BY <1>1, <1>2, <1>3, <1>4, <1>5, <1>6, <1>7 DEF Next, StopperStep, KeysStep

(* The terminal is cooked exactly while the gate's owner gives it away.    *)
LEMMA TermInvStep == SessionInv /\ [Next]_vars => TermInv'
<1> SUFFICES ASSUME SessionInv, [Next]_vars PROVE TermInv'  OBVIOUS
<1> USE DEF SessionInv, TypeOK, GateInv, BeginInv, TermInv, EndInv, Gated, GivenAway,
            Return, Unwinding, RunDone, ChannelsClosed, ShuttingDown, ConnClosed,
            SuspendPcs, SuspendedPcs
<1>1. CASE MainStep \/ WaitReturns
  BY <1>1 DEF MainStep, SetRaw, Attach, Start, WaitReturns, Drain, CloseConn,
     ShutDown, CloseChannels, JoinHandlers, JoinFallbacks, PassGate,
     RestoreTerminal, Remove
<1>2. CASE HandlerStep \/ FallbackStep
  BY <1>2 DEF HandlerStep, FallbackStep, TakeSignal, CheckSignal, Forward,
     HandlerEnds, GraceOver, GraceCalledOff, FallBack
<1>3. CASE TakeStop \/ CheckStop \/ StopperEnds
  BY <1>3 DEF TakeStop, CheckStop, StopperEnds
<1>4. CASE ReadKeys \/ TakeChannel \/ WaitForInput \/ WriteKeys \/ KeysEnd
  BY <1>4 DEF ReadKeys, TakeChannel, WaitForInput, WriteKeys, KeysEnd
<1>5. ASSUME NEW s \in Suspenders, Suspend(s) PROVE TermInv'
  <2>1. CASE Enter(s)  BY <2>1 DEF Enter
  <2>2. CASE TakeGate(s)  BY <2>2 DEF TakeGate
  <2>3. CASE LookAgain(s)  BY <2>3 DEF LookAgain
  <2>4. CASE PauseInput(s)  BY <2>4 DEF PauseInput
  <2>5. CASE StopApp(s)  BY <2>5 DEF StopApp
  <2>6. CASE Cook(s)  BY <2>6 DEF Cook
  <2>7. CASE Freeze(s)  BY <2>7 DEF Freeze
  <2>8. CASE Claim(s)  BY <2>8 DEF Claim
  <2>9. CASE Uncook(s)  BY <2>9 DEF Uncook
  <2>10. CASE ContinueApp(s)  BY <2>10 DEF ContinueApp
  <2>11. CASE AwaitOutput(s)  BY <2>11 DEF AwaitOutput
  <2>12. CASE Reassert(s)  BY <2>12 DEF Reassert
  <2>13. CASE ResumeInput(s)  BY <2>13 DEF ResumeInput
  <2>14. CASE ReleaseGate(s)  BY <2>14 DEF ReleaseGate
  <2> QED
    BY <1>5, <2>1, <2>2, <2>3, <2>4, <2>5, <2>6, <2>7, <2>8, <2>9, <2>10, <2>11,
       <2>12, <2>13, <2>14 DEF Suspend
<1>6. CASE Signal \/ StopSignal \/ AppExits \/ AppWrites \/ OutputEnds \/ OutputFails
         \/ Continue
  BY <1>6 DEF Signal, StopSignal, AppExits, AppWrites, OutputEnds,
     OutputFails, Continue
<1>7. CASE UNCHANGED vars  BY <1>7
<1> QED  BY <1>1, <1>2, <1>3, <1>4, <1>5, <1>6, <1>7 DEF Next, StopperStep, KeysStep

(* What the shutdown has waited for does not begin again.                  *)
LEMMA EndInvStep == SessionInv /\ [Next]_vars => EndInv'
<1> SUFFICES ASSUME SessionInv, [Next]_vars PROVE EndInv'  OBVIOUS
<1> USE DEF SessionInv, TypeOK, GateInv, BeginInv, EndInv, Gated, Return, Noticed,
            Unwinding, RunDone, ChannelsClosed, ShuttingDown, ConnClosed, SuspendPcs,
            SuspendedPcs
<1>1. CASE MainStep \/ WaitReturns
  BY <1>1 DEF MainStep, SetRaw, Attach, Start, WaitReturns, Drain, CloseConn,
     ShutDown, CloseChannels, JoinHandlers, JoinFallbacks, PassGate,
     RestoreTerminal, Remove
<1>2. CASE HandlerStep \/ FallbackStep
  BY <1>2 DEF HandlerStep, FallbackStep, TakeSignal, CheckSignal, Forward,
     HandlerEnds, GraceOver, GraceCalledOff, FallBack
<1>3. CASE TakeStop \/ CheckStop \/ StopperEnds
  BY <1>3 DEF TakeStop, CheckStop, StopperEnds
<1>4. CASE ReadKeys \/ TakeChannel \/ WaitForInput \/ WriteKeys \/ KeysEnd
  BY <1>4 DEF ReadKeys, TakeChannel, WaitForInput, WriteKeys, KeysEnd
<1>5. ASSUME NEW s \in Suspenders, Suspend(s) PROVE EndInv'
  <2>1. CASE Enter(s)  BY <2>1 DEF Enter
  <2>2. CASE TakeGate(s)  BY <2>2 DEF TakeGate
  <2>3. CASE LookAgain(s)  BY <2>3 DEF LookAgain
  <2>4. CASE PauseInput(s)  BY <2>4 DEF PauseInput
  <2>5. CASE StopApp(s)  BY <2>5 DEF StopApp
  <2>6. CASE Cook(s)  BY <2>6 DEF Cook
  <2>7. CASE Freeze(s)  BY <2>7 DEF Freeze
  <2>8. CASE Claim(s)  BY <2>8 DEF Claim
  <2>9. CASE Uncook(s)  BY <2>9 DEF Uncook
  <2>10. CASE ContinueApp(s)  BY <2>10 DEF ContinueApp
  <2>11. CASE AwaitOutput(s)  BY <2>11 DEF AwaitOutput
  <2>12. CASE Reassert(s)  BY <2>12 DEF Reassert
  <2>13. CASE ResumeInput(s)  BY <2>13 DEF ResumeInput
  <2>14. CASE ReleaseGate(s)  BY <2>14 DEF ReleaseGate
  <2> QED
    BY <1>5, <2>1, <2>2, <2>3, <2>4, <2>5, <2>6, <2>7, <2>8, <2>9, <2>10, <2>11,
       <2>12, <2>13, <2>14 DEF Suspend
<1>6. CASE Signal \/ StopSignal \/ AppExits \/ AppWrites \/ OutputEnds \/ OutputFails
         \/ Continue
  BY <1>6 DEF Signal, StopSignal, AppExits, AppWrites, OutputEnds,
     OutputFails, Continue
<1>7. CASE UNCHANGED vars  BY <1>7
<1> QED  BY <1>1, <1>2, <1>3, <1>4, <1>5, <1>6, <1>7 DEF Next, StopperStep, KeysStep

(* A signal is in the channel, in hand, or one fallback goroutine.         *)
LEMMA CountInvStep == SessionInv /\ [Next]_vars => CountInv'
<1> SUFFICES ASSUME SessionInv, [Next]_vars PROVE CountInv'  OBVIOUS
<1> USE DEF SessionInv, TypeOK, CountInv, InHand, Return
<1>1. CASE MainStep \/ WaitReturns
  BY <1>1 DEF MainStep, SetRaw, Attach, Start, WaitReturns, Drain, CloseConn,
     ShutDown, CloseChannels, JoinHandlers, JoinFallbacks, PassGate,
     RestoreTerminal, Remove
<1>2. CASE HandlerStep \/ FallbackStep
  BY <1>2 DEF HandlerStep, FallbackStep, TakeSignal, CheckSignal, Forward,
     HandlerEnds, GraceOver, GraceCalledOff, FallBack
<1>3. CASE TakeStop \/ CheckStop \/ StopperEnds
  BY <1>3 DEF TakeStop, CheckStop, StopperEnds
<1>4. CASE ReadKeys \/ TakeChannel \/ WaitForInput \/ WriteKeys \/ KeysEnd
  BY <1>4 DEF ReadKeys, TakeChannel, WaitForInput, WriteKeys, KeysEnd
<1>5. ASSUME NEW s \in Suspenders, Suspend(s) PROVE CountInv'
  BY <1>5 DEF Suspend, Enter, TakeGate, LookAgain, PauseInput, StopApp, Cook, Freeze,
     Claim, Uncook, ContinueApp, AwaitOutput, Reassert, ResumeInput, ReleaseGate
<1>6. CASE Signal \/ StopSignal \/ AppExits \/ AppWrites \/ OutputEnds \/ OutputFails
         \/ Continue
  BY <1>6 DEF Signal, StopSignal, AppExits, AppWrites, OutputEnds,
     OutputFails, Continue
<1>7. CASE UNCHANGED vars  BY <1>7
<1> QED  BY <1>1, <1>2, <1>3, <1>4, <1>5, <1>6, <1>7 DEF Next, StopperStep, KeysStep

(* The last attempt at removal is main's: the fallbacks have ended.        *)
LEMMA NoOrphanStep == SessionInv /\ [Next]_vars => NoOrphan'
<1> SUFFICES ASSUME SessionInv, [Next]_vars PROVE NoOrphan'  OBVIOUS
<1> USE DEF SessionInv, TypeOK, EndInv, NoOrphan, Return, Cleanup, Unwinding, RunDone,
            ChannelsClosed, ShuttingDown, ConnClosed
<1>1. CASE MainStep \/ WaitReturns
  BY <1>1 DEF MainStep, SetRaw, Attach, Start, WaitReturns, Drain, CloseConn,
     ShutDown, CloseChannels, JoinHandlers, JoinFallbacks, PassGate,
     RestoreTerminal, Remove
<1>2. CASE HandlerStep \/ FallbackStep
  BY <1>2 DEF HandlerStep, FallbackStep, TakeSignal, CheckSignal, Forward,
     HandlerEnds, GraceOver, GraceCalledOff, FallBack
<1>3. CASE TakeStop \/ CheckStop \/ StopperEnds
  BY <1>3 DEF TakeStop, CheckStop, StopperEnds
<1>4. CASE ReadKeys \/ TakeChannel \/ WaitForInput \/ WriteKeys \/ KeysEnd
  BY <1>4 DEF ReadKeys, TakeChannel, WaitForInput, WriteKeys, KeysEnd
<1>5. ASSUME NEW s \in Suspenders, Suspend(s) PROVE NoOrphan'
  BY <1>5 DEF Suspend, Enter, TakeGate, LookAgain, PauseInput, StopApp, Cook, Freeze,
     Claim, Uncook, ContinueApp, AwaitOutput, Reassert, ResumeInput, ReleaseGate
<1>6. CASE Signal \/ StopSignal \/ AppExits \/ AppWrites \/ OutputEnds \/ OutputFails
         \/ Continue
  BY <1>6 DEF Signal, StopSignal, AppExits, AppWrites, OutputEnds,
     OutputFails, Continue
<1>7. CASE UNCHANGED vars  BY <1>7
<1> QED  BY <1>1, <1>2, <1>3, <1>4, <1>5, <1>6, <1>7 DEF Next, StopperStep, KeysStep

(* Resuming lets the input through and makes it early.                     *)
LEMMA InputInvStep == SessionInv /\ [Next]_vars => InputInv'
<1> SUFFICES ASSUME SessionInv, [Next]_vars PROVE InputInv'  OBVIOUS
<1> USE DEF SessionInv, TypeOK, BeginInv, InputInv, Return, Unwinding, RunDone,
            ChannelsClosed, ShuttingDown, ConnClosed
<1>1. CASE MainStep \/ WaitReturns
  BY <1>1 DEF MainStep, SetRaw, Attach, Start, WaitReturns, Drain, CloseConn,
     ShutDown, CloseChannels, JoinHandlers, JoinFallbacks, PassGate,
     RestoreTerminal, Remove
<1>2. CASE HandlerStep \/ FallbackStep
  BY <1>2 DEF HandlerStep, FallbackStep, TakeSignal, CheckSignal, Forward,
     HandlerEnds, GraceOver, GraceCalledOff, FallBack
<1>3. CASE TakeStop \/ CheckStop \/ StopperEnds
  BY <1>3 DEF TakeStop, CheckStop, StopperEnds
<1>4. CASE ReadKeys \/ TakeChannel \/ WaitForInput \/ WriteKeys \/ KeysEnd
  BY <1>4 DEF ReadKeys, TakeChannel, WaitForInput, WriteKeys, KeysEnd
<1>5. ASSUME NEW s \in Suspenders, Suspend(s) PROVE InputInv'
  BY <1>5 DEF Suspend, Enter, TakeGate, LookAgain, PauseInput, StopApp, Cook, Freeze,
     Claim, Uncook, ContinueApp, AwaitOutput, Reassert, ResumeInput, ReleaseGate
<1>6. CASE Signal \/ StopSignal \/ AppExits \/ AppWrites \/ OutputEnds \/ OutputFails
         \/ Continue
  BY <1>6 DEF Signal, StopSignal, AppExits, AppWrites, OutputEnds,
     OutputFails, Continue
<1>7. CASE UNCHANGED vars  BY <1>7
<1> QED  BY <1>1, <1>2, <1>3, <1>4, <1>5, <1>6, <1>7 DEF Next, StopperStep, KeysStep

-----------------------------------------------------------------------------
(* The initial states satisfy the inductive invariant.                     *)
LEMMA SessionInvInit == Init => SessionInv
<1> SUFFICES ASSUME Init PROVE SessionInv  OBVIOUS
<1> USE DEF Init
<1>0. BooleansInv  BY Zenon DEF BooleansInv
<1>1. TypeOK  BY <1>0 DEF BooleansInv, TypeOK, MainPcs, HandlerPcs, StopperPcs, KeysPcs
<1>2. GateInv  BY DEF GateInv, Gated, SuspendedPcs
<1>3. BeginInv  BY DEF BeginInv, SuspendPcs, SuspendedPcs
<1>4. TermInv  BY DEF TermInv, GivenAway
<1>5. EndInv  BY DEF EndInv, RunDone, Unwinding
<1>6. CountInv  BY DEF CountInv, InHand
<1>7. NoOrphan /\ InputInv  BY DEF NoOrphan, InputInv
<1> QED  BY <1>1, <1>2, <1>3, <1>4, <1>5, <1>6, <1>7 DEF SessionInv

(* The inductive invariant of a session.                                   *)
THEOREM SessionInvariant == Spec => []SessionInv
<1>1. SessionInv /\ [Next]_vars => SessionInv'
  BY TypeOKStep, GateInvStep, BeginInvStep, TermInvStep, EndInvStep, CountInvStep,
     NoOrphanStep, InputInvStep DEF SessionInv
<1> QED  BY SessionInvInit, <1>1, PTL DEF Spec

(* Every variable of RunContainer and its helpers keeps its type: at most  *)
(* one fallback goroutine for each signal.                                 *)
THEOREM SessionTypeCorrect == Spec => []TypeOK
<1>1. SessionInv => TypeOK  BY DEF SessionInv
<1> QED  BY SessionInvariant, <1>1, PTL

(* The shell has a cooked terminal whenever tpd is stopped or returns, and *)
(* a running session has it raw outside of suspensions (docker_run.go      *)
(* suspend, restoreTerminal).                                              *)
THEOREM TerminalGivenBack == Spec => []TerminalMode
<1>1. SessionInv => TerminalMode
  <2> SUFFICES ASSUME SessionInv PROVE TerminalMode  OBVIOUS
  <2> USE DEF SessionInv, TypeOK
  <2>1. frozen => term = "cooked"
    BY DEF BeginInv, TermInv, GivenAway, SuspendPcs, SuspendedPcs, MainPcs
  <2>2. pc["main"] \in {"remove", "returned"} => term = "cooked"
    BY DEF TermInv
  <2>3. tty /\ pc["main"] \notin {"raw", "remove", "returned"} /\ gate = Nobody => term = "raw"
    BY DEF TermInv, GateInv, GivenAway, Gated, SuspendedPcs
  <2> QED  BY <2>1, <2>2, <2>3 DEF TerminalMode
<1> QED  BY SessionInvariant, <1>1, PTL

(* Past the shutdown of RunContainer no helper signals, removes, suspends  *)
(* or touches the terminal.                                                *)
THEOREM ShutdownIsQuiet == Spec => []QuietAfterShutdown
<1>1. SessionInv => QuietAfterShutdown
  BY DEF SessionInv, EndInv, QuietAfterShutdown, RunDone, Unwinding
<1> QED  BY SessionInvariant, <1>1, PTL

(* A session that returns has removed its container or has tried to last.  *)
THEOREM ContainerRemoved == Spec => []NoOrphan
<1>1. SessionInv => NoOrphan  BY DEF SessionInv
<1> QED  BY SessionInvariant, <1>1, PTL

(* Input read while the session is suspended is not written before it is   *)
(* resumed (docker_run.go waitForInput).                                   *)
THEOREM PausedInputWaits == Spec => []InputWaits
<1>1. SessionInv => InputWaits  BY DEF SessionInv, InputInv, InputWaits
<1> QED  BY SessionInvariant, <1>1, PTL
=============================================================================
