------------------------------ MODULE ServerProcess ------------------------------
(***************************************************************************)
(* The life of the server's process (flexisip_conference::main and main):    *)
(* the options that only print, the configuration file, the process limits,  *)
(* the server and its loop.  Signals may come between any two steps of main, *)
(* an exception ends the process wherever it is thrown, and the supervisor   *)
(* or an operator starts it again (flexisip.service.in), MaxStarts times in   *)
(* all.                                                                       *)
(*                                                                            *)
(* The main loop is sofia-sip's.  That main tests run before it enters the    *)
(* loop says that a quit requested earlier does not end a loop entered        *)
(* later; EarlyQuitIsKept is a loop that would remember it.                   *)
(***************************************************************************)
EXTENDS Integers

CONSTANTS
    MaxStarts,        \* bound on the starts of the process
    MaxLimit,         \* bound on the limits of file descriptors
    EarlyQuitIsKept   \* TRUE: the loop remembers a quit requested before it runs

ASSUME BoundsAreNat == MaxStarts \in Nat /\ MaxLimit \in Nat \ {0}

\* --dump-default or --dump-all-default; --dump-mibs, --list-modules, --list-sections
\* or --list-overrides; --rewrite-config
Printing == {"dump", "list", "rewrite"}
Options == Printing \cup {"show-experimental", "pidfile"}
Limits == {lm \in [cur : 1..MaxLimit, max : 1..MaxLimit] : lm.cur <= lm.max}

VARIABLES
    pc,        \* where main is
    options,   \* the options of the process
    configuration,  \* the file: "unread", "missing", "invalid" or "valid"
    pidFile,   \* this process wrote the pid file
    inherited, \* the limit of file descriptors the process was started with
    limit,     \* the one it has
    run,       \* the flag the signal handler resets
    quit,      \* the loop will end, or has ended, for a quit requested
    server,    \* "none", "initialised" or "stopped"
    notified,  \* the supervisor was told that the server is ready
    asked,     \* history: a signal asked this process to stop
    status,    \* how the last process ended: "none", "success", "failure", "signal"
    starts     \* the starts so far

startVars == <<options, inherited, starts>>
systemVars == <<configuration, pidFile, limit>>
loopVars == <<run, quit, asked>>
vars == <<pc, startVars, systemVars, loopVars, server, notified, status>>

TypeOK ==
    /\ pc \in {"down", "options", "dump", "list", "load", "rewrite", "log-level", "pidfile",
               "show-body", "limit", "configuring", "initialised", "ready", "entering",
               "looping", "left", "cleaning"}
    /\ options \subseteq Options
    /\ configuration \in {"unread", "missing", "invalid", "valid"}
    /\ pidFile \in BOOLEAN
    /\ inherited \in Limits
    /\ limit \in Limits
    /\ run \in {0, 1}
    /\ quit \in BOOLEAN
    /\ server \in {"none", "initialised", "stopped"}
    /\ notified \in BOOLEAN
    /\ asked \in BOOLEAN
    /\ status \in {"none", "success", "failure", "signal"}
    /\ starts \in 0..MaxStarts

Init ==
    /\ pc = "down"
    /\ options = {}
    /\ configuration = "unread" /\ pidFile = FALSE
    /\ inherited = [cur |-> 1, max |-> 1] /\ limit = inherited
    /\ run = 1 /\ quit = FALSE
    /\ server = "none"
    /\ notified = FALSE
    /\ asked = FALSE
    /\ status = "none"
    /\ starts = 0

-----------------------------------------------------------------------------
Goto(from, to) == pc = from /\ pc' = to

End(how) == pc' = "down" /\ status' = how

\* A new process has the initial values of the static variables.
Start ==
    /\ Goto("down", "options")
    /\ starts < MaxStarts
    /\ starts' = starts + 1
    /\ options' \in SUBSET Options
    /\ inherited' \in Limits
    /\ limit' = inherited'
    /\ configuration' = "unread" /\ pidFile' = FALSE
    /\ run' = 1 /\ quit' = FALSE
    /\ server' = "none"
    /\ notified' = FALSE
    /\ asked' = FALSE
    /\ UNCHANGED status

\* The options are not understood, or ask for help or for the version.
ParseEnds ==
    /\ pc = "options"
    /\ End("failure") \/ End("success")
    /\ UNCHANGED <<startVars, systemVars, loopVars, server, notified>>

\* From here on the signals have handlers.
SetSignalHandlers ==
    /\ Goto("options", "dump")
    /\ UNCHANGED <<startVars, systemVars, loopVars, server, notified, status>>

-----------------------------------------------------------------------------
(* The options that print, in the order they are tested *)

\* dump_config may not find the section, refuse an experimental one, or not know
\* the format.
DumpDefault ==
    /\ pc = "dump"
    /\ \/ /\ "dump" \in options
          /\ End("success") \/ End("failure")
       \/ /\ "dump" \notin options
          /\ pc' = "list"
          /\ UNCHANGED status
    /\ UNCHANGED <<startVars, systemVars, loopVars, server, notified>>

List ==
    /\ pc = "list"
    /\ \/ "list" \in options /\ End("success")
       \/ "list" \notin options /\ pc' = "load" /\ UNCHANGED status
    /\ UNCHANGED <<startVars, systemVars, loopVars, server, notified>>

\* ConfigManager::load.  An invalid item is an exception unless the file is only
\* to be rewritten.
LoadConfiguration ==
    /\ pc = "load"
    /\ configuration' \in {"missing", "invalid", "valid"}
    /\ IF configuration' = "valid" \/ (configuration' = "invalid" /\ "rewrite" \in options)
       THEN pc' = "rewrite" /\ UNCHANGED status
       ELSE End("failure")
    /\ UNCHANGED <<startVars, pidFile, limit, loopVars, server, notified>>

\* mutant: main goes on after the configuration is rewritten
RewriteConfigurationAndGoOn ==
    /\ Goto("rewrite", "log-level")
    /\ UNCHANGED <<startVars, systemVars, loopVars, server, notified, status>>

\* dump_config starts with the overrides, which may be refused.
RewriteConfiguration ==
    /\ pc = "rewrite"
    /\ \/ /\ "rewrite" \in options
          /\ End("success") \/ End("failure")
       \/ /\ "rewrite" \notin options
          /\ "show-experimental" \in options
          /\ End("failure")
       \/ /\ {"rewrite", "show-experimental"} \cap options = {}
          /\ pc' = "log-level"
          /\ UNCHANGED status
    /\ UNCHANGED <<startVars, systemVars, loopVars, server, notified>>

-----------------------------------------------------------------------------
(* The process and the server *)

\* The core dumps, the hosts and the log levels; sofia-level may be out of range.
ReadLogLevel ==
    /\ Goto("log-level", "pidfile")
    /\ UNCHANGED <<startVars, systemVars, loopVars, server, notified, status>>

\* A pid file that does not open is logged.
MakePidFile ==
    /\ Goto("pidfile", "show-body")
    /\ pidFile' \in IF "pidfile" \in options THEN BOOLEAN ELSE {FALSE}
    /\ UNCHANGED <<startVars, configuration, limit, loopVars, server, notified, status>>

\* show-body-for may name something that is no method.
ReadShowBodyFor ==
    /\ Goto("show-body", "limit")
    /\ UNCHANGED <<startVars, systemVars, loopVars, server, notified, status>>

\* getSystemFdLimit may not know, and only a privileged process may set a hard limit
\* above its own; both are logged.
IncreaseFDLimit ==
    /\ Goto("limit", "configuring")
    /\ \/ UNCHANGED limit
       \/ \E systemLimit \in (limit.cur + 1)..MaxLimit :
            limit' = [cur |-> systemLimit, max |-> systemLimit]
    /\ UNCHANGED <<startVars, configuration, pidFile, loopVars, server, notified, status>>

\* The agent is created and ConferenceServer::init succeeds.
InitServer ==
    /\ Goto("configuring", "initialised")
    /\ server' = "initialised"
    /\ UNCHANGED <<startVars, systemVars, loopVars, notified, status>>

NotifyReady ==
    /\ Goto("initialised", "ready")
    /\ notified' = TRUE
    /\ UNCHANGED <<startVars, systemVars, loopVars, server, status>>

\* if (run) root->run()
TestRun ==
    /\ pc = "ready"
    /\ pc' = IF run # 0 THEN "entering" ELSE "left"
    /\ UNCHANGED <<startVars, systemVars, loopVars, server, notified, status>>

EnterLoop ==
    /\ Goto("entering", "looping")
    /\ UNCHANGED <<startVars, systemVars, loopVars, server, notified, status>>

LeaveLoop ==
    /\ Goto("looping", "left")
    /\ quit
    /\ UNCHANGED <<startVars, systemVars, loopVars, server, notified, status>>

\* mutant: the server is destroyed without being stopped
LeaveServer ==
    /\ Goto("left", "cleaning")
    /\ UNCHANGED <<startVars, systemVars, loopVars, server, notified, status>>

\* ConferenceServer::stop, which leaves no cleanup task
StopServer ==
    /\ Goto("left", "cleaning")
    /\ server' = "stopped"
    /\ UNCHANGED <<startVars, systemVars, loopVars, notified, status>>

\* Without a task the cleanup is done at the first turn: the deadline is not met.
Cleanup ==
    /\ pc = "cleaning"
    /\ End("success")
    /\ UNCHANGED <<startVars, systemVars, loopVars, server, notified>>

\* An exception of a setting, of the start, of sd_notify, of a callback of the loop
\* or of the stop of the agent and of the server, caught in main.cc
Throw ==
    /\ pc \in {"log-level", "show-body", "configuring", "initialised", "looping", "left"}
    /\ End("failure")
    /\ UNCHANGED <<startVars, systemVars, loopVars, server, notified>>

-----------------------------------------------------------------------------
\* mutant: the loop is not told
StopWithoutQuit ==
    /\ run' = 0
    /\ UNCHANGED quit

\* mutant: the flag is counted down at each signal
StopCountingDown ==
    /\ run' = run - 1
    /\ quit' = (quit \/ pc = "looping" \/ EarlyQuitIsKept)

\* flexisip_stop: a second signal does nothing
FlexisipStop ==
    IF run # 0
    THEN /\ run' = 0
         /\ quit' = (quit \/ pc = "looping" \/ EarlyQuitIsKept)
    ELSE UNCHANGED <<run, quit>>

\* SIGTERM or SIGINT
StopSignal ==
    \/ /\ pc = "options"
       /\ End("signal")
       /\ UNCHANGED <<startVars, systemVars, loopVars, server, notified>>
    \/ /\ pc \notin {"down", "options"}
       /\ FlexisipStop
       /\ asked' = TRUE
       /\ UNCHANGED <<pc, startVars, systemVars, server, notified, status>>

MainStep ==
    \/ SetSignalHandlers \/ DumpDefault \/ List \/ LoadConfiguration
    \/ RewriteConfiguration \/ ReadLogLevel \/ MakePidFile \/ ReadShowBodyFor
    \/ IncreaseFDLimit \/ InitServer \/ NotifyReady \/ TestRun \/ EnterLoop
    \/ LeaveLoop \/ StopServer \/ Cleanup

Next == Start \/ ParseEnds \/ MainStep \/ Throw \/ StopSignal

Spec == Init /\ [][Next]_vars

\* The process is given time to run.
FairSpec == Spec /\ WF_vars(MainStep)

-----------------------------------------------------------------------------
(* Only a plain start with a valid configuration file has effects: a process  *)
(* asked to print something, or whose file is missing or invalid, writes no   *)
(* pid file over that of the running server, changes no limit and never opens *)
(* the server's database (flexisip-conference.cc:509-566,568-591,643-679).    *)
OnlyPlainStartsHaveEffects ==
    server # "none" \/ pidFile \/ limit # inherited =>
        options \cap (Printing \cup {"show-experimental"}) = {} /\ configuration = "valid"

(* A process that tells its supervisor that it succeeded after it was ready   *)
(* was asked to stop, and has stopped the server: nothing it subscribed to or *)
(* listens to is left behind unannounced (flexisip-conference.cc:690-714).    *)
SuccessMeansStopped ==
    [][status' = "success" /\ pc # "down" /\ pc' = "down" /\ notified =>
           asked /\ server = "stopped"]_vars

(* A process asked to stop by a signal ends, whatever it was doing when the   *)
(* signal came (main-tester.cc:96, "Stop the server and check that the        *)
(* program exit cleanly").                                                    *)
AskedProcessEnds == asked /\ pc # "down" ~> pc = "down"

=============================================================================
