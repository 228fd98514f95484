------------------------- MODULE LaunchFrameProofs -------------------------
(***************************************************************************)
(* Theorems about LaunchFrame, for any run of launches, signals and        *)
(* proxies.  The argument has two halves.  The goroutine of the spinner    *)
(* is over, or the spinner is active, or Stop is between closing the       *)
(* channel and wiping the line (SpinnerInv).  And a proxy that was started *)
(* is either still waited for or has its clean-up among the deferred calls *)
(* (ProxyInv), which only end when it was waited for.                      *)
(***************************************************************************)
EXTENDS LaunchFrame, TLAPS

(* Where Stop is, when it closes the channel and afterwards.               *)
Closing == {"close", "deferredClose"}
Waiting == {"wait", "deferredWait"}
Clearing == {"clear", "deferredClear"}
Silent == {"start", "create", "session", "returned"}

SpinnerInv ==
  /\ mu = "anim" <=> anim = "unlock"
  /\ mu = "main" <=> pc \in Closing
  /\ pc \in Closing => active
  /\ active => pc \notin Silent \cup Waiting \cup Clearing \cup {"interrupted"}
  /\ pc \in Clearing => anim = "done"
  /\ ~active /\ pc \notin Waiting \cup Clearing \cup {"interrupted"}
       => line = "clean" /\ anim \in {"none", "done"}
  /\ pc \in {"start", "interrupted"} => anim = "none"

(* Before the proxy, while it is waited for, once it is there, and when it *)
(* has been waited for.                                                    *)
Before == {"start", "prepare", "proxy", "spawn"}
Polling == {"poll", "time"}
After == {"services", "startServices", "create", "session", "stopServices", "servicesStopped"} \cup Stopping
Last == {"deferredStop", "deferredClose", "deferredWait", "deferredClear", "returned"}

ProxyInv ==
  /\ pc \in Before => proxy = "none" /\ sock # "own"
  /\ pc \in Before \cup Polling \cup {"interrupted"} => defers = {}
  /\ pc = "spawn" => sock = "none"
  /\ pc \in Polling \cup {"kill", "join"} => proxy \in {"starting", "ready", "dead"}
  /\ pc \in Polling => sock # "stale"
  /\ proxy = "starting" => sock = "none"
  /\ pc \in After /\ "proxy" \notin defers => proxy = "none" /\ sock # "own"
  /\ pc \in After /\ "proxy" \in defers => proxy \in {"ready", "dead"}
  /\ pc = "remove" => proxy = "reaped"
  /\ pc \in Last => proxy \in {"none", "reaped"} /\ sock # "own"

(* Who is inside the diagnostics writer, or will be.                       *)
WriterInv ==
  /\ pipe \/ "copier" \in writing => proxy \in {"starting", "ready", "dead"} /\ pc # "interrupted"
  /\ "main" \in writing => pc \in {"prepare", "startServices", "servicesStopped"}

FrameInv == TypeOK /\ SpinnerInv /\ ProxyInv /\ WriterInv /\ BusIsOwn

USE DEF vars, choices, spinner, proxyVars, around, At, Goto, Unwind, Stopping, Deferred, AtStop, ThenStop,
        Stopped, Quiet, Closing, Waiting, Clearing, Silent, Before, Polling, After, Last

(* A launch begins within the invariant.                                   *)
LEMMA FrameInvInit == Init => FrameInv
BY DEF Init, FrameInv, TypeOK, SpinnerInv, ProxyInv, WriterInv, BusIsOwn

(* The steps of the spinner's goroutine and of Stop.                       *)
LEMMA SpinnerSteps == FrameInv /\ (SpinnerStart \/ AnimNext \/ StopNext) => FrameInv'
<1> SUFFICES ASSUME FrameInv, SpinnerStart \/ AnimNext \/ StopNext PROVE FrameInv'  OBVIOUS
<1> USE DEF FrameInv, AnimNext, StopNext, SpinnerStart, Ticks, Ends, Locks, Unlocks, Draws,
            StopLock, StopClose, StopWait, StopClear
<1>1. TypeOK'
  <2>1. CASE SpinnerStart  BY <2>1 DEF TypeOK
  <2>2. CASE Ticks  BY <2>2 DEF TypeOK
  <2>3. CASE Ends  BY <2>3 DEF TypeOK
  <2>4. CASE Locks  BY <2>4 DEF TypeOK
  <2>5. CASE Unlocks  BY <2>5 DEF TypeOK
  <2>6. CASE Draws  BY <2>6 DEF TypeOK
  <2>7. CASE StopLock  BY <2>7 DEF TypeOK
  <2>8. CASE StopClose
    <3>1. active' \in BOOLEAN /\ stop' \in BOOLEAN  BY <2>8, Zenon
    <3> QED  BY <2>8, <3>1 DEF TypeOK
  <2>9. CASE StopWait  BY <2>9 DEF TypeOK
  <2>10. CASE StopClear  BY <2>10 DEF TypeOK
  <2> QED  BY <2>1, <2>2, <2>3, <2>4, <2>5, <2>6, <2>7, <2>8, <2>9, <2>10 DEF AnimNext, StopNext
<1>2. SpinnerInv'  BY DEF TypeOK, SpinnerInv
<1>3. ProxyInv'  BY DEF TypeOK, ProxyInv
<1>4. WriterInv'  BY DEF TypeOK, WriterInv
<1>5. BusIsOwn'  BY DEF TypeOK, BusIsOwn
<1> QED  BY <1>1, <1>2, <1>3, <1>4, <1>5

(* The steps of the launch about the bus.                                  *)
BusSteps ==
  \/ NoBus \/ RemoveStale \/ Spawn \/ SpawnFails \/ Poll \/ Misses
  \/ GiveUpOrWait \/ Kill \/ Join \/ RemoveSocket
LEMMA BusStepsKeep == FrameInv /\ BusSteps => FrameInv'
<1> SUFFICES ASSUME FrameInv, BusSteps PROVE FrameInv'  OBVIOUS
<1> USE DEF FrameInv, BusSteps, NoBus, RemoveStale, Spawn, SpawnFails, Poll, Misses, GiveUpOrWait,
            Kill, Join, RemoveSocket
<1>1. TypeOK'
  <2>1. CASE NoBus  BY <2>1 DEF TypeOK
  <2>2. CASE RemoveStale  BY <2>2 DEF TypeOK
  <2>3. CASE Spawn  BY <2>3 DEF TypeOK
  <2>4. CASE SpawnFails  BY <2>4 DEF TypeOK
  <2>5. CASE Poll  BY <2>5 DEF TypeOK
  <2>6. CASE Misses  BY <2>6 DEF TypeOK
  <2>7. CASE GiveUpOrWait  BY <2>7 DEF TypeOK
  <2>8. CASE Kill  BY <2>8 DEF TypeOK
  <2>9. CASE Join  BY <2>9 DEF TypeOK
  <2>10. CASE RemoveSocket  BY <2>10 DEF TypeOK
  <2> QED  BY <2>1, <2>2, <2>3, <2>4, <2>5, <2>6, <2>7, <2>8, <2>9, <2>10 DEF BusSteps
<1>2. SpinnerInv'  BY DEF TypeOK, SpinnerInv
<1>3. ProxyInv'  BY DEF TypeOK, ProxyInv
<1>4. WriterInv'  BY DEF TypeOK, WriterInv
<1>5. BusIsOwn'  BY DEF TypeOK, BusIsOwn, ProxyInv
<1> QED  BY <1>1, <1>2, <1>3, <1>4, <1>5

(* The other steps of the launch.                                          *)
OtherSteps ==
  \/ Printed \/ Prepared \/ PrepareFails
  \/ RegisterStop \/ ServicesStarted \/ ServicesFail \/ Create \/ CreateFails
  \/ SessionReturns \/ StopServices \/ ServicesStopped
LEMMA OtherStepsKeep == FrameInv /\ OtherSteps => FrameInv'
<1> SUFFICES ASSUME FrameInv, OtherSteps PROVE FrameInv'  OBVIOUS
<1> USE DEF FrameInv, OtherSteps, Printed, Prepared, PrepareFails, RegisterStop, ServicesStarted,
            ServicesFail, Create, CreateFails, SessionReturns, StopServices, ServicesStopped
<1>1. TypeOK'  BY DEF TypeOK
<1>2. SpinnerInv'  BY DEF TypeOK, SpinnerInv
<1>3. ProxyInv'  BY DEF TypeOK, ProxyInv
<1>4. WriterInv'  BY DEF TypeOK, WriterInv
<1>5. BusIsOwn'  BY DEF TypeOK, BusIsOwn
<1> QED  BY <1>1, <1>2, <1>3, <1>4, <1>5

(* What happens around it.                                                 *)
Surroundings == ProxyNext \/ Progress \/ Deadline \/ Interrupted \/ Again
LEMMA SurroundingsKeep == FrameInv /\ Surroundings => FrameInv'
<1> SUFFICES ASSUME FrameInv, Surroundings PROVE FrameInv'  OBVIOUS
<1> USE DEF FrameInv, Surroundings, ProxyNext, Listens, Dies, Prints, Logs, Copied, OrphanDies,
            Progress, Deadline, Interrupted, Again
<1>1. TypeOK'
  <2>1. CASE Listens  BY <2>1 DEF TypeOK
  <2>2. CASE Dies  BY <2>2 DEF TypeOK
  <2>3. CASE Logs
    <3>1. pipe' \in BOOLEAN  BY <2>3, Zenon
    <3> QED  BY <2>3, <3>1 DEF TypeOK
  <2>4. CASE Copied  BY <2>4 DEF TypeOK
  <2>5. CASE Progress  BY <2>5 DEF TypeOK
  <2>6. CASE Deadline  BY <2>6 DEF TypeOK
  <2>7. CASE Interrupted
    <3>1. active' \in BOOLEAN /\ stop' \in BOOLEAN /\ pipe' \in BOOLEAN  BY <2>7, Zenon
    <3>2. defers' \subseteq {"proxy", "services"} /\ writing' \subseteq {"main", "copier"}  BY <2>7
    <3> QED  BY <2>7, <3>1, <3>2 DEF TypeOK
  <2>8. CASE Again
    <3>1. killed' \in BOOLEAN /\ late' \in BOOLEAN  BY <2>8, Zenon
    <3>2. orphan' \in BOOLEAN  BY <2>8, Zenon
    <3> QED  BY <2>8, <3>1, <3>2 DEF TypeOK
  <2>9. CASE Prints
    <3>1. pipe' \in BOOLEAN  BY <2>9, Zenon
    <3> QED  BY <2>9, <3>1 DEF TypeOK
  <2>10. CASE OrphanDies  BY <2>10 DEF TypeOK
  <2> QED  BY <2>1, <2>2, <2>3, <2>4, <2>5, <2>6, <2>7, <2>8, <2>9, <2>10 DEF Surroundings, ProxyNext
<1>2. SpinnerInv'  BY DEF TypeOK, SpinnerInv
<1>3. ProxyInv'
  <2>1. CASE Listens
    <3>1. pc \notin Before \cup After \cup Last \cup {"remove"}  BY <2>1 DEF ProxyInv
    <3>2. proxy' = "ready" /\ sock' = "own" /\ pc' = pc /\ defers' = defers  BY <2>1
    <3> QED  BY <3>1, <3>2 DEF ProxyInv
  <2>2. CASE Dies  BY <2>2 DEF TypeOK, ProxyInv
  <2>3. CASE Logs  BY <2>3 DEF TypeOK, ProxyInv
  <2>4. CASE Copied  BY <2>4 DEF TypeOK, ProxyInv
  <2>5. CASE Progress  BY <2>5 DEF TypeOK, ProxyInv
  <2>6. CASE Deadline  BY <2>6 DEF TypeOK, ProxyInv
  <2>7. CASE Interrupted
    <3>1. pc' = "interrupted" /\ proxy' = proxy /\ sock' = sock /\ defers' = {}  BY <2>7
    <3> QED  BY <3>1 DEF ProxyInv
  <2>8. CASE Again  BY <2>8 DEF TypeOK, ProxyInv
  <2>9. CASE Prints  BY <2>9 DEF TypeOK, ProxyInv
  <2>10. CASE OrphanDies  BY <2>10 DEF TypeOK, ProxyInv
  <2> QED  BY <2>1, <2>2, <2>3, <2>4, <2>5, <2>6, <2>7, <2>8, <2>9, <2>10 DEF Surroundings, ProxyNext
<1>4. WriterInv'  BY DEF TypeOK, WriterInv
<1>5. BusIsOwn'  BY DEF TypeOK, BusIsOwn
<1> QED  BY <1>1, <1>2, <1>3, <1>4, <1>5

(* The inductive invariant of LaunchWithWriter from its spinner on: where  *)
(* Stop has got to, what the deferred calls still have to take down, and   *)
(* who writes to the diagnostics writer.                                   *)
THEOREM FrameInvariant == Spec => []FrameInv
<1>1. FrameInv /\ [Next]_vars => FrameInv'
  <2> SUFFICES ASSUME FrameInv, [Next]_vars PROVE FrameInv'  OBVIOUS
  <2>1. CASE MainNext \/ AnimNext
    BY <2>1, SpinnerSteps, BusStepsKeep, OtherStepsKeep DEF MainNext, BusSteps, OtherSteps
  <2>2. CASE Surroundings
    BY <2>2, SurroundingsKeep
  <2>3. CASE UNCHANGED vars
    BY <2>3 DEF FrameInv, TypeOK, SpinnerInv, ProxyInv, WriterInv, BusIsOwn
  <2> QED  BY <2>1, <2>2, <2>3 DEF Next, Surroundings, Returned
<1> QED  BY FrameInvInit, <1>1, PTL DEF Spec

(* startBusProxy, spinnerProgress and the deferred calls keep the types.   *)
THEOREM FrameTypeCorrect == Spec => []TypeOK
<1>1. FrameInv => TypeOK  BY DEF FrameInv
<1> QED  BY <1>1, FrameInvariant, PTL

(* Stop of spinner.go gives the terminal back with no frame on it and no   *)
(* goroutine that could still draw one, on whichever path it is called.    *)
THEOREM TerminalIsQuiet == Spec => []SpinnerQuiet
<1>1. FrameInv => SpinnerQuiet  BY DEF FrameInv, SpinnerInv, SpinnerQuiet
<1> QED  BY <1>1, FrameInvariant, PTL

(* startBusProxy never takes the socket of an earlier tpd with its pid, or *)
(* of nobody, for its proxy's.                                             *)
THEOREM BusIsAlwaysOwn == Spec => []BusIsOwn
<1>1. FrameInv => BusIsOwn  BY DEF FrameInv
<1> QED  BY <1>1, FrameInvariant, PTL

(* A launch that returns has waited for its proxy, removed its socket and  *)
(* joined the goroutines that write what the proxy prints.                 *)
THEOREM ProxyIsReaped == Spec => []ProxyReaped
<1>1. FrameInv => ProxyReaped
  BY DEF FrameInv, TypeOK, ProxyInv, WriterInv, ProxyReaped
<1> QED  BY <1>1, FrameInvariant, PTL
=============================================================================
