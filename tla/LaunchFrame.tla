---------------------------- MODULE LaunchFrame ----------------------------
(***************************************************************************)
(* What surrounds a container session in one launch: the spinner with its  *)
(* goroutine, the filtered session bus with its proxy process, and the     *)
(* deferred calls that take both down again.                               *)
(*                                                                         *)
(* Source: LaunchWithWriter in pkg/tpd/launch.go from newSpinnerProgress   *)
(* on, pkg/tpd/spinner.go, pkg/tpd/dbusproxy.go.  Services and the session *)
(* itself are steps here; ServiceLifecycle and Session are about them.     *)
(***************************************************************************)

VARIABLES
  tty,       \* the diagnostics writer is a terminal
  bus,       \* the profile allows names on the bus
  services,  \* the profile declares services
  pc,        \* the step the launch is at
  mu,        \* who has the spinner's mutex: "main", "anim", "nobody"
  active,    \* the spinner's flag
  stop,      \* its stop channel is closed
  anim,      \* the step of the animation goroutine
  line,      \* the terminal line it writes to: "clean" or "frame"
  proxy,     \* the proxy: "none", "starting", "ready", "dead", "reaped"
  killed,    \* SIGKILL is on its way to it
  sock,      \* the socket file: "none", "stale" (an earlier tpd's), "own"
  late,      \* the two seconds are over
  pipe,      \* what it has printed is still to be copied
  orphan,    \* the proxy of an earlier tpd, at the same path, is still there
  defers,    \* registered deferred calls: "proxy", "services"
  writing    \* who is inside the diagnostics writer: "main", "copier"

choices == <<tty, bus, services>>
spinner == <<mu, active, stop, anim, line>>
around == <<pipe, orphan>>
proxyVars == <<proxy, killed, sock, late, around>>
vars == <<choices, pc, spinner, proxyVars, defers, writing>>

Init ==
  /\ tty \in BOOLEAN /\ bus \in BOOLEAN /\ services \in BOOLEAN
  /\ pc = "start"
  /\ mu = "nobody" /\ active = FALSE /\ stop = FALSE /\ anim = "none" /\ line = "clean"
  /\ proxy = "none" /\ killed = FALSE /\ sock \in {"none", "stale"} /\ late = FALSE
  /\ pipe = FALSE /\ orphan \in BOOLEAN
  /\ defers = {} /\ writing = {}

At(p) == pc = p
Goto(p) == pc' = p

(* The deferred calls run in the reverse order of their registration; the  *)
(* spinner's Stop was registered first.                                    *)
Unwind ==
  Goto(IF "services" \in defers THEN "stopServices"
       ELSE IF "proxy" \in defers THEN "kill" ELSE "deferredStop")

-----------------------------------------------------------------------------
(* The spinner.                                                            *)

SpinnerStart ==
  /\ At("start") /\ Goto("prepare")
  /\ active' = tty /\ anim' = IF tty THEN "select" ELSE "none"
  /\ UNCHANGED <<choices, mu, stop, line, proxyVars, defers, writing>>

(* The select: with the channel closed and the interval over, either case. *)
Ticks ==
  /\ anim = "select" /\ anim' = "lock"
  /\ UNCHANGED <<choices, pc, mu, active, stop, line, proxyVars, defers, writing>>
Ends ==
  /\ anim = "select" /\ stop /\ anim' = "done"
  /\ UNCHANGED <<choices, pc, mu, active, stop, line, proxyVars, defers, writing>>
Locks ==
  /\ anim = "lock" /\ mu = "nobody"
  /\ mu' = "anim" /\ anim' = "unlock"
  /\ UNCHANGED <<choices, pc, active, stop, line, proxyVars, defers, writing>>
Unlocks ==
  /\ anim = "unlock"
  /\ mu' = "nobody" /\ anim' = "draw"
  /\ UNCHANGED <<choices, pc, active, stop, line, proxyVars, defers, writing>>
Draws ==
  /\ anim = "draw" /\ anim' = "select" /\ line' = "frame"
  /\ UNCHANGED <<choices, pc, mu, active, stop, proxyVars, defers, writing>>

(* Progress becomes the label of an active spinner, else a line.           *)
Progress ==
  /\ pc \in {"prepare", "startServices"} /\ mu = "nobody" /\ "main" \notin writing
  /\ writing' = IF active THEN writing ELSE writing \cup {"main"}
  /\ UNCHANGED <<choices, pc, spinner, proxyVars, defers>>
Printed ==
  /\ "main" \in writing /\ writing' = writing \ {"main"}
  /\ UNCHANGED <<choices, pc, spinner, proxyVars, defers>>

(* Stop is called before the container is created, and deferred.           *)
Stopping == {"stop", "close", "wait", "clear"}
Deferred(p) == CASE p = "stop" -> "deferredStop" [] p = "close" -> "deferredClose"
                 [] p = "wait" -> "deferredWait" [] p = "clear" -> "deferredClear"
AtStop(p) == pc \in {p, Deferred(p)}
ThenStop(p) == Goto(IF pc \in Stopping THEN p ELSE Deferred(p))
Stopped == Goto(IF pc \in Stopping THEN "create" ELSE "returned")

StopLock ==
  /\ AtStop("stop") /\ mu = "nobody"
  /\ IF active THEN ThenStop("close") /\ mu' = "main" ELSE Stopped /\ UNCHANGED mu
  /\ UNCHANGED <<choices, active, stop, anim, line, proxyVars, defers, writing>>

(* Mutant: the mutex is given back by a deferred call.                     *)
StopCloseLocked ==
  /\ AtStop("close") /\ ThenStop("wait")
  /\ active' = FALSE /\ stop' = TRUE
  /\ UNCHANGED <<choices, mu, anim, line, proxyVars, defers, writing>>

StopClose ==
  /\ AtStop("close") /\ ThenStop("wait")
  /\ active' = FALSE /\ stop' = TRUE /\ mu' = "nobody"
  /\ UNCHANGED <<choices, anim, line, proxyVars, defers, writing>>

(* Mutant: Stop does not wait for the goroutine.                           *)
StopNoWait ==
  /\ AtStop("wait") /\ ThenStop("clear")
  /\ UNCHANGED <<choices, spinner, proxyVars, defers, writing>>

StopWait ==
  /\ AtStop("wait") /\ anim = "done" /\ ThenStop("clear")
  /\ UNCHANGED <<choices, spinner, proxyVars, defers, writing>>

StopClear ==
  /\ AtStop("clear") /\ mu = "nobody"
  /\ line' = "clean" /\ Stopped
  /\ UNCHANGED <<choices, mu, active, stop, anim, proxyVars, defers, writing>>

-----------------------------------------------------------------------------
(* The launch, up to the bus.                                              *)

Quiet == "main" \notin writing

Prepared ==
  /\ At("prepare") /\ Quiet /\ Goto(IF bus THEN "proxy" ELSE "services")
  /\ UNCHANGED <<choices, spinner, proxyVars, defers, writing>>
PrepareFails ==
  /\ At("prepare") /\ Quiet /\ Unwind
  /\ UNCHANGED <<choices, spinner, proxyVars, defers, writing>>

(* No host bus, or xdg-dbus-proxy is not installed.                        *)
NoBus ==
  /\ At("proxy") /\ Unwind
  /\ UNCHANGED <<choices, spinner, proxyVars, defers, writing>>

(* Mutant: an earlier tpd with this pid may have left its socket.          *)
KeepSocket ==
  /\ At("proxy") /\ Goto("spawn")
  /\ UNCHANGED <<choices, spinner, proxyVars, defers, writing>>

RemoveStale ==
  /\ At("proxy") /\ Goto("spawn") /\ sock' = "none"
  /\ UNCHANGED <<choices, spinner, proxy, killed, late, around, defers, writing>>

Spawn ==
  /\ At("spawn") /\ Goto("poll") /\ proxy' = "starting"
  /\ UNCHANGED <<choices, spinner, killed, sock, late, around, defers, writing>>
SpawnFails ==
  /\ At("spawn") /\ Unwind
  /\ UNCHANGED <<choices, spinner, proxyVars, defers, writing>>

(* Stat comes first, and the time after it; the socket may appear between. *)
Poll ==
  /\ At("poll") /\ sock # "none"
  /\ Goto("services") /\ defers' = defers \cup {"proxy"}
  /\ UNCHANGED <<choices, spinner, proxyVars, writing>>
Misses ==
  /\ At("poll") /\ sock = "none" /\ Goto("time")
  /\ UNCHANGED <<choices, spinner, proxyVars, defers, writing>>
GiveUpOrWait ==
  /\ At("time") /\ Goto(IF late THEN "kill" ELSE "poll")
  /\ UNCHANGED <<choices, spinner, proxyVars, defers, writing>>

(* Both the give-up and the clean-up kill, wait, and remove the socket.    *)
Kill ==
  /\ At("kill") /\ Goto("join") /\ killed' = TRUE
  /\ UNCHANGED <<choices, spinner, proxy, sock, late, around, defers, writing>>

(* Mutant: the socket is removed while the proxy may still be there.       *)
NoJoin ==
  /\ At("join") /\ Goto("remove")
  /\ UNCHANGED <<choices, spinner, proxyVars, defers, writing>>

(* cmd.Wait: the process is gone, and so is the goroutine that copies.     *)
Join ==
  /\ At("join") /\ proxy = "dead" /\ ~pipe /\ "copier" \notin writing
  /\ Goto("remove") /\ proxy' = "reaped"
  /\ UNCHANGED <<choices, spinner, killed, sock, late, around, defers, writing>>
RemoveSocket ==
  /\ At("remove") /\ Goto("deferredStop") /\ sock' = "none"
  /\ UNCHANGED <<choices, spinner, proxy, killed, late, around, defers, writing>>

-----------------------------------------------------------------------------
(* From the services to the session.                                       *)

RegisterStop ==
  /\ At("services")
  /\ Goto(IF services THEN "startServices" ELSE "stop")
  /\ defers' = IF services THEN defers \cup {"services"} ELSE defers
  /\ UNCHANGED <<choices, spinner, proxyVars, writing>>
ServicesStarted ==
  /\ At("startServices") /\ Quiet /\ Goto("stop")
  /\ UNCHANGED <<choices, spinner, proxyVars, defers, writing>>
ServicesFail ==
  /\ At("startServices") /\ Quiet /\ Unwind
  /\ UNCHANGED <<choices, spinner, proxyVars, defers, writing>>
Create ==
  /\ At("create") /\ Goto("session")
  /\ UNCHANGED <<choices, spinner, proxyVars, defers, writing>>
CreateFails ==
  /\ At("create") /\ Unwind
  /\ UNCHANGED <<choices, spinner, proxyVars, defers, writing>>
SessionReturns ==
  /\ At("session") /\ Unwind
  /\ UNCHANGED <<choices, spinner, proxyVars, defers, writing>>

(* An error of the stop step is a warning.                                 *)
StopServices ==
  /\ At("stopServices") /\ Goto("servicesStopped")
  /\ writing' \in {writing, writing \cup {"main"}}
  /\ UNCHANGED <<choices, spinner, proxyVars, defers>>
ServicesStopped ==
  /\ At("servicesStopped") /\ Quiet
  /\ Goto(IF "proxy" \in defers THEN "kill" ELSE "deferredStop")
  /\ UNCHANGED <<choices, spinner, proxyVars, defers, writing>>

-----------------------------------------------------------------------------
(* The proxy, and the goroutine that copies its output.                    *)

Deadline ==
  /\ pc \in {"poll", "time"} /\ ~late /\ late' = TRUE
  /\ UNCHANGED <<choices, pc, spinner, proxy, killed, sock, around, defers, writing>>
Listens ==
  /\ proxy = "starting" /\ proxy' = "ready" /\ sock' = "own"
  /\ UNCHANGED <<choices, pc, spinner, killed, late, around, defers, writing>>

(* Because it was killed, or by itself; then it may remove its socket.     *)
Dies ==
  /\ proxy \in {"starting", "ready"} /\ proxy' = "dead"
  /\ sock' \in {sock} \cup (IF killed THEN {} ELSE {"none"})
  /\ UNCHANGED <<choices, pc, spinner, killed, late, around, defers, writing>>
Prints ==
  /\ ~At("interrupted") /\ proxy \in {"starting", "ready"} /\ pipe' = TRUE
  /\ UNCHANGED <<choices, pc, spinner, proxy, killed, sock, late, orphan, defers, writing>>

(* What is in the pipe is copied, also when the proxy is dead.             *)
Logs ==
  /\ pipe /\ pipe' = FALSE /\ "copier" \notin writing
  /\ writing' = writing \cup {"copier"}
  /\ UNCHANGED <<choices, pc, spinner, proxy, killed, sock, late, orphan, defers>>
Copied ==
  /\ "copier" \in writing /\ writing' = writing \ {"copier"}
  /\ UNCHANGED <<choices, pc, spinner, proxyVars, defers>>

-----------------------------------------------------------------------------
(* SIGKILL, or a signal that nothing in tpd handles then.  The proxy stays *)
(* behind; when the pid comes round for a later tpd, it has begun to       *)
(* listen or is dead.                                                      *)
Interrupted ==
  /\ pc \notin {"returned", "interrupted"} /\ Goto("interrupted")
  /\ mu' = "nobody" /\ active' = FALSE /\ anim' = "none" /\ stop' = FALSE
  /\ pipe' = FALSE /\ defers' = {} /\ writing' = {}
  /\ UNCHANGED <<choices, line, proxy, killed, sock, late, orphan>>
Again ==
  /\ At("interrupted") /\ proxy # "starting" /\ Goto("start")
  /\ line' = "clean" /\ proxy' = "none" /\ killed' = FALSE /\ late' = FALSE
  /\ sock' = IF sock = "none" THEN "none" ELSE "stale"
  /\ orphan' = (orphan \/ proxy = "ready")
  /\ UNCHANGED <<choices, mu, active, stop, anim, pipe, defers, writing>>

(* One that was left behind dies; it may remove the socket at its path,    *)
(* whosever that is by now.                                                *)
OrphanDies ==
  /\ orphan /\ orphan' \in BOOLEAN /\ sock' \in {sock, "none"}
  /\ UNCHANGED <<choices, pc, spinner, proxy, killed, late, pipe, defers, writing>>

Returned == At("returned") /\ UNCHANGED vars

AnimNext == Ticks \/ Ends \/ Locks \/ Unlocks \/ Draws
StopNext == StopLock \/ StopClose \/ StopWait \/ StopClear
MainNext ==
  \/ SpinnerStart \/ Printed \/ StopNext
  \/ Prepared \/ PrepareFails \/ NoBus \/ RemoveStale \/ Spawn \/ SpawnFails \/ Poll \/ Misses
  \/ GiveUpOrWait \/ Kill \/ Join \/ RemoveSocket
  \/ RegisterStop \/ ServicesStarted \/ ServicesFail \/ Create \/ CreateFails
  \/ SessionReturns \/ StopServices \/ ServicesStopped
ProxyNext == Listens \/ Dies \/ Prints \/ Logs \/ Copied \/ OrphanDies

Next == MainNext \/ AnimNext \/ ProxyNext \/ Progress \/ Deadline \/ Interrupted \/ Again \/ Returned

Spec == Init /\ [][Next]_vars

(* Steps of tpd's goroutines come to their turn, the clock goes on, and a  *)
(* killed process dies.  Nothing makes a proxy listen.                     *)
FairSpec ==
  /\ Spec
  /\ WF_vars(MainNext) /\ SF_vars(StopLock)
  /\ WF_vars(AnimNext) /\ SF_vars(Locks) /\ SF_vars(Ends)
  /\ WF_vars(Deadline) /\ WF_vars(Logs) /\ WF_vars(Copied) /\ WF_vars(killed /\ Dies)

-----------------------------------------------------------------------------
(* Properties.                                                             *)

TypeOK ==
  /\ tty \in BOOLEAN /\ bus \in BOOLEAN /\ services \in BOOLEAN
  /\ pc \in Stopping \cup {Deferred(p) : p \in Stopping}
       \cup {"start", "prepare", "proxy", "spawn", "poll", "time", "kill", "join", "remove",
             "services", "startServices", "create", "session", "stopServices",
             "servicesStopped", "returned", "interrupted"}
  /\ mu \in {"main", "anim", "nobody"} /\ active \in BOOLEAN /\ stop \in BOOLEAN
  /\ anim \in {"none", "select", "lock", "unlock", "draw", "done"}
  /\ line \in {"clean", "frame"}
  /\ proxy \in {"none", "starting", "ready", "dead", "reaped"} /\ killed \in BOOLEAN
  /\ sock \in {"none", "stale", "own"} /\ late \in BOOLEAN
  /\ pipe \in BOOLEAN /\ orphan \in BOOLEAN
  /\ defers \subseteq {"proxy", "services"} /\ writing \subseteq {"main", "copier"}

(* The container gets the terminal only when no goroutine draws on it any  *)
(* more and the last frame is wiped, and so does tpd's caller: also when   *)
(* Stop runs while the goroutine sits between its select and its write.    *)
SpinnerQuiet ==
  pc \in {"create", "session", "returned"} => line = "clean" /\ anim \in {"none", "done"}

(* A launch that goes on with a bus mounts a socket at which its own proxy *)
(* has listened, whatever an earlier tpd with the same pid left there and  *)
(* a proxy of it still does.                                               *)
BusIsOwn ==
  bus /\ pc \in {"services", "startServices", "create", "session"} \cup Stopping
    => proxy \in {"ready", "dead"} /\ sock # "stale"

(* A launch that returned leaves no proxy, no socket of it and no writer   *)
(* behind, on every path: no bus, a proxy that never listens or one that   *)
(* dies, failed services, and a socket that appears as the wait ends.      *)
ProxyReaped ==
  At("returned") => proxy \in {"none", "reaped"} /\ sock # "own" /\ writing = {}

(* A launch that begins to wind up gets to its end, however the spinner's  *)
(* goroutine and the proxy are caught: no step waits for one that is gone. *)
LaunchEnds ==
  pc \in Stopping \cup {"poll", "kill", "stopServices", "deferredStop"}
    ~> pc \in {"services", "create", "returned", "interrupted"}

(* What lockedWriter is for, in the words of startBusProxy: "serializing   *)
(* writes keeps any caller-supplied writer safe".                          *)
DiagSerialized == ~tty => writing # {"main", "copier"}
=============================================================================
