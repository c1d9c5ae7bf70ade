--------------------------- MODULE ServerProcessProofs ---------------------------
(***************************************************************************)
(* Theorems about ServerProcess, for any number of starts and any limits of  *)
(* descriptors.                                                              *)
(*                                                                           *)
(* The safety properties follow from one invariant, IInv: where main is says *)
(* which options it has been through, what it has done, and whether somebody *)
(* asked it to stop.                                                         *)
(***************************************************************************)
EXTENDS ServerProcess, TLAPS

\* main before and after the options that end it
Early == {"options", "dump", "list", "load", "rewrite"}
Late == {"log-level", "pidfile", "show-body", "limit", "configuring", "initialised",
         "ready", "entering", "looping", "left", "cleaning"}

Plain == options \cap (Printing \cup {"show-experimental"}) = {} /\ configuration = "valid"

\* Nothing is done before the last option that ends main was tested.
EffectsInv ==
    /\ pc \in Early => server = "none" /\ ~pidFile /\ limit = inherited
    /\ pc \in {"list", "load", "rewrite"} => "dump" \notin options
    /\ pc \in {"load", "rewrite"} => "list" \notin options
    /\ pc = "rewrite" => configuration = "valid" \/ "rewrite" \in options
    /\ pc \in Late => Plain
    /\ OnlyPlainStartsHaveEffects

\* The loop is left, or not entered, only for a signal.
StopInv ==
    /\ pc # "down" /\ (run = 0 \/ quit) => asked
    /\ pc \in {"left", "cleaning"} => asked
    /\ pc = "cleaning" => server = "stopped"
    /\ notified => pc \in {"ready", "entering", "looping", "left", "cleaning", "down"}

IInv == TypeOK /\ EffectsInv /\ StopInv

LEMMA InitIInv == Init => IInv
<1> SUFFICES ASSUME Init PROVE IInv
  OBVIOUS
<1>1. inherited \in Limits /\ limit \in Limits
  BY BoundsAreNat DEF Init, Limits
<1>2. TypeOK
  <2>1. starts \in 0..MaxStarts /\ run \in {0, 1}
    BY BoundsAreNat DEF Init
  <2> QED
    BY <1>1, <2>1, Zenon DEF Init, TypeOK
<1>3. EffectsInv
  BY DEF Init, EffectsInv, OnlyPlainStartsHaveEffects, Early, Late
<1>4. StopInv
  BY DEF Init, StopInv
<1> QED
  BY <1>2, <1>3, <1>4 DEF IInv

(* Types: the limit is the only variable whose value is computed. *)
LEMMA NextTypeOK == TypeOK /\ [Next]_vars => TypeOK'
<1> SUFFICES ASSUME TypeOK, [Next]_vars PROVE TypeOK'
  OBVIOUS
<1> USE BoundsAreNat DEF TypeOK
<1>1. CASE Start
  <2>1. starts' \in 0..MaxStarts
    BY <1>1 DEF Start
  <2>2. limit' \in Limits /\ inherited' \in Limits /\ options' \subseteq Options
    BY <1>1 DEF Start
  <2> QED
    BY <2>1, <2>2, <1>1 DEF Start, Goto
<1>2. CASE ParseEnds
  BY <1>2 DEF ParseEnds, End, startVars, systemVars, loopVars
<1>3. CASE SetSignalHandlers
  BY <1>3 DEF SetSignalHandlers, Goto, startVars, systemVars, loopVars
<1>4. CASE DumpDefault
  BY <1>4 DEF DumpDefault, End, startVars, systemVars, loopVars
<1>5. CASE List
  BY <1>5 DEF List, End, startVars, systemVars, loopVars
<1>6. CASE LoadConfiguration
  BY <1>6 DEF LoadConfiguration, End, startVars, loopVars
<1>7. CASE RewriteConfiguration
  BY <1>7 DEF RewriteConfiguration, End, startVars, systemVars, loopVars
<1>8. CASE ReadLogLevel
  BY <1>8 DEF ReadLogLevel, Goto, startVars, systemVars, loopVars
<1>9. CASE MakePidFile
  BY <1>9 DEF MakePidFile, Goto, startVars, loopVars
<1>10. CASE ReadShowBodyFor
  BY <1>10 DEF ReadShowBodyFor, Goto, startVars, systemVars, loopVars
<1>11. CASE IncreaseFDLimit
  <2>1. limit' \in Limits
    BY <1>11 DEF IncreaseFDLimit, Limits
  <2> QED
    BY <2>1, <1>11 DEF IncreaseFDLimit, Goto, startVars, loopVars
<1>12. CASE InitServer
  BY <1>12 DEF InitServer, Goto, startVars, systemVars, loopVars
<1>13. CASE NotifyReady
  BY <1>13 DEF NotifyReady, Goto, startVars, systemVars, loopVars
<1>14. CASE TestRun
  BY <1>14 DEF TestRun, startVars, systemVars, loopVars
<1>15. CASE EnterLoop \/ LeaveLoop
  BY <1>15 DEF EnterLoop, LeaveLoop, Goto, startVars, systemVars, loopVars
<1>16. CASE StopServer
  BY <1>16 DEF StopServer, Goto, startVars, systemVars, loopVars
<1>17. CASE Cleanup
  BY <1>17 DEF Cleanup, End, startVars, systemVars, loopVars
<1>18. CASE Throw
  BY <1>18 DEF Throw, End, startVars, systemVars, loopVars
<1>19. CASE StopSignal
  <2>1. run' \in {0, 1}
    BY <1>19 DEF StopSignal, FlexisipStop, loopVars
  <2>2. quit' \in BOOLEAN
    BY <1>19, Zenon DEF StopSignal, FlexisipStop, loopVars
  <2> QED
    <3>1. UNCHANGED <<startVars, systemVars, server, notified>> /\ asked' \in BOOLEAN
      BY <1>19, Zenon DEF StopSignal, loopVars
    <3>2. \/ pc' = "down" /\ status' = "signal"
          \/ UNCHANGED <<pc, status>>
      BY <1>19 DEF StopSignal, End
    <3> QED
      BY <2>1, <2>2, <3>1, <3>2 DEF startVars, systemVars
<1>20. CASE UNCHANGED vars
  BY <1>20 DEF vars, startVars, systemVars, loopVars
<1> QED
  BY <1>1, <1>2, <1>3, <1>4, <1>5, <1>6, <1>7, <1>8, <1>9, <1>10, <1>11, <1>12, <1>13,
     <1>14, <1>15, <1>16, <1>17, <1>18, <1>19, <1>20 DEF Next, MainStep

(* An action that does something comes late; one that ends main early has     *)
(* done nothing.                                                              *)
LEMMA NextEffectsInv == EffectsInv /\ [Next]_vars => EffectsInv'
<1> SUFFICES ASSUME EffectsInv, [Next]_vars PROVE EffectsInv'
  OBVIOUS
<1> USE DEF EffectsInv, OnlyPlainStartsHaveEffects, Early, Late, Plain, Printing
<1>1. CASE Start
  BY <1>1 DEF Start, Goto
<1>2. CASE ParseEnds
  BY <1>2 DEF ParseEnds, End, startVars, systemVars, loopVars
<1>3. CASE SetSignalHandlers
  BY <1>3 DEF SetSignalHandlers, Goto, startVars, systemVars, loopVars
<1>4. CASE DumpDefault
  BY <1>4 DEF DumpDefault, End, startVars, systemVars, loopVars
<1>5. CASE List
  BY <1>5 DEF List, End, startVars, systemVars, loopVars
<1>6. CASE LoadConfiguration
  BY <1>6 DEF LoadConfiguration, End, startVars, loopVars
<1>7. CASE RewriteConfiguration
  BY <1>7 DEF RewriteConfiguration, End, startVars, systemVars, loopVars
<1>8. CASE ReadLogLevel
  BY <1>8 DEF ReadLogLevel, Goto, startVars, systemVars, loopVars
<1>9. CASE MakePidFile
  BY <1>9 DEF MakePidFile, Goto, startVars, loopVars
<1>10. CASE ReadShowBodyFor
  BY <1>10 DEF ReadShowBodyFor, Goto, startVars, systemVars, loopVars
<1>11. CASE IncreaseFDLimit
  BY <1>11 DEF IncreaseFDLimit, Goto, startVars, loopVars
<1>12. CASE InitServer
  BY <1>12 DEF InitServer, Goto, startVars, systemVars, loopVars
<1>13. CASE NotifyReady
  BY <1>13 DEF NotifyReady, Goto, startVars, systemVars, loopVars
<1>14. CASE TestRun
  BY <1>14 DEF TestRun, startVars, systemVars, loopVars
<1>15. CASE EnterLoop \/ LeaveLoop
  BY <1>15 DEF EnterLoop, LeaveLoop, Goto, startVars, systemVars, loopVars
<1>16. CASE StopServer
  BY <1>16 DEF StopServer, Goto, startVars, systemVars, loopVars
<1>17. CASE Cleanup
  BY <1>17 DEF Cleanup, End, startVars, systemVars, loopVars
<1>18. CASE Throw
  BY <1>18 DEF Throw, End, startVars, systemVars, loopVars
<1>19. CASE StopSignal
  BY <1>19 DEF StopSignal, FlexisipStop, End, startVars, systemVars, loopVars
<1>20. CASE UNCHANGED vars
  BY <1>20 DEF vars, startVars, systemVars, loopVars
<1> QED
  BY <1>1, <1>2, <1>3, <1>4, <1>5, <1>6, <1>7, <1>8, <1>9, <1>10, <1>11, <1>12, <1>13,
     <1>14, <1>15, <1>16, <1>17, <1>18, <1>19, <1>20 DEF Next, MainStep

(* The flag and the quit come from a signal handler, and the way out of the   *)
(* loop from one of them.                                                     *)
LEMMA NextStopInv == TypeOK /\ StopInv /\ [Next]_vars => StopInv'
<1> SUFFICES ASSUME TypeOK, StopInv, [Next]_vars PROVE StopInv'
  OBVIOUS
<1> USE DEF StopInv
<1>1. CASE Start
  BY <1>1 DEF Start, Goto
<1>2. CASE ParseEnds \/ DumpDefault \/ List \/ RewriteConfiguration
  BY <1>2 DEF ParseEnds, DumpDefault, List, RewriteConfiguration, End, startVars,
     systemVars, loopVars
<1>3. CASE SetSignalHandlers \/ ReadLogLevel \/ ReadShowBodyFor \/ NotifyReady
  BY <1>3 DEF SetSignalHandlers, ReadLogLevel, ReadShowBodyFor, NotifyReady, Goto,
     startVars, systemVars, loopVars
<1>4. CASE LoadConfiguration
  BY <1>4 DEF LoadConfiguration, End, startVars, loopVars
<1>5. CASE MakePidFile \/ IncreaseFDLimit
  <2>1. UNCHANGED <<run, quit, asked, server, notified>>
    BY <1>5 DEF MakePidFile, IncreaseFDLimit, loopVars
  <2>2. pc \in {"pidfile", "limit"} /\ pc' \in {"show-body", "configuring"}
    BY <1>5 DEF MakePidFile, IncreaseFDLimit, Goto
  <2> QED
    BY <2>1, <2>2
<1>6. CASE InitServer
  BY <1>6 DEF InitServer, Goto, startVars, systemVars, loopVars
<1>7. CASE TestRun
  BY <1>7 DEF TypeOK, TestRun, startVars, systemVars, loopVars
<1>8. CASE EnterLoop \/ LeaveLoop
  BY <1>8 DEF EnterLoop, LeaveLoop, Goto, startVars, systemVars, loopVars
<1>9. CASE StopServer
  BY <1>9 DEF StopServer, Goto, startVars, systemVars, loopVars
<1>10. CASE Cleanup \/ Throw
  BY <1>10 DEF Cleanup, Throw, End, startVars, systemVars, loopVars
<1>11. CASE StopSignal
  BY <1>11 DEF StopSignal, FlexisipStop, End, startVars, systemVars, loopVars
<1>12. CASE UNCHANGED vars
  BY <1>12 DEF vars, startVars, systemVars, loopVars
<1> QED
  BY <1>1, <1>2, <1>3, <1>4, <1>5, <1>6, <1>7, <1>8, <1>9, <1>10, <1>11, <1>12
     DEF Next, MainStep

LEMMA Inductive == Spec => []IInv
<1>1. IInv /\ [Next]_vars => IInv'
  BY NextTypeOK, NextEffectsInv, NextStopInv DEF IInv
<1> QED
  BY <1>1, InitIInv, PTL DEF Spec

-----------------------------------------------------------------------------
(* Every variable keeps its type, the limits included, wherever an exception  *)
(* or a signal comes (flexisip-conference.cc:191-225).                        *)
THEOREM Typing == Spec => []TypeOK
BY Inductive, PTL DEF IInv

(* Only a plain start with a valid configuration writes a pid file, changes a *)
(* limit or opens the server, in whatever combination the options come        *)
(* (flexisip-conference.cc:509-566).                                          *)
THEOREM PlainStartsOnly == Spec => []OnlyPlainStartsHaveEffects
BY Inductive, PTL DEF IInv, EffectsInv

(* A process that was ready ends as a success only because it was asked to    *)
(* stop, and after the stop of the server (flexisip-conference.cc:690-714).   *)
THEOREM SuccessIsAStop == Spec => SuccessMeansStopped
<1> DEFINE Ends == status' = "success" /\ pc # "down" /\ pc' = "down" /\ notified
<1>1. IInv /\ [Next]_vars => [Ends => asked /\ server = "stopped"]_vars
  <2> SUFFICES ASSUME IInv, Next, Ends PROVE asked /\ server = "stopped"
    OBVIOUS
  <2>1. pc \in {"ready", "entering", "looping", "left", "cleaning"}
    BY DEF IInv, StopInv
  <2>2. Cleanup
    BY <2>1 DEF Next, MainStep, Start, ParseEnds, SetSignalHandlers, DumpDefault, List,
       LoadConfiguration, RewriteConfiguration, ReadLogLevel, MakePidFile, ReadShowBodyFor,
       IncreaseFDLimit, InitServer, NotifyReady, TestRun, EnterLoop, LeaveLoop, StopServer,
       Throw, StopSignal, Goto, End
  <2> QED
    BY <2>2 DEF IInv, StopInv, Cleanup
<1> QED
  BY <1>1, Inductive, PTL DEF Spec, SuccessMeansStopped

-----------------------------------------------------------------------------
(* Where a signal may be lost *)

\* main is at the loop, was asked to stop, and the loop does not know.
Deaf == pc \in {"entering", "looping"} /\ asked /\ ~quit

\* The flag is reset at the first signal.
AskedInv == asked => run = 0

(* Only the handler changes the flag; a new process was not asked to stop.    *)
LEMMA NextAskedInv == AskedInv /\ [Next]_vars => AskedInv'
<1> SUFFICES ASSUME AskedInv, [Next]_vars PROVE AskedInv'
  OBVIOUS
<1>1. CASE Start
  BY <1>1 DEF AskedInv, Start
<1>2. CASE StopSignal /\ pc # "options"
  <2>1. FlexisipStop /\ asked' = TRUE
    BY <1>2 DEF StopSignal
  <2>2. CASE run # 0
    <3>1. run' = 0
      BY <2>1, <2>2 DEF FlexisipStop
    <3> QED
      BY <3>1 DEF AskedInv
  <2>3. CASE run = 0
    BY <2>1, <2>3 DEF FlexisipStop, AskedInv
  <2> QED
    BY <2>2, <2>3
<1>3. CASE ~Start /\ ~(StopSignal /\ pc # "options")
  <2>1. UNCHANGED <<run, asked>>
    BY <1>3 DEF Next, MainStep, ParseEnds, SetSignalHandlers, DumpDefault, List,
       LoadConfiguration, RewriteConfiguration, ReadLogLevel, MakePidFile, ReadShowBodyFor,
       IncreaseFDLimit, InitServer, NotifyReady, TestRun, EnterLoop, LeaveLoop, StopServer,
       Cleanup, Throw, StopSignal, loopVars, vars
  <2> QED
    BY <2>1 DEF AskedInv
<1> QED
  BY <1>1, <1>2, <1>3

LEMMA AskedInductive == Spec => [](IInv /\ AskedInv)
<1>1. Init => AskedInv
  BY DEF Init, AskedInv
<1> QED
  BY <1>1, NextAskedInv, Inductive, PTL DEF Spec

\* Only the signal between the test of run and the loop makes the process deaf.
DeafOnlyBeforeTheLoop == [][~Deaf /\ Deaf' => pc = "entering" /\ pc' = "entering"]_vars

(* A signal can be lost between the test of run and the loop, and nowhere     *)
(* else: an earlier one is seen by the test, a later one ends the loop,        *)
(* whatever sofia-sip's loop remembers (flexisip-conference.cc:117-122,690).   *)
THEOREM SignalsAreLostOnlyBeforeTheLoop == Spec => DeafOnlyBeforeTheLoop
<1>1. IInv /\ AskedInv /\ [Next]_vars
        => [~Deaf /\ Deaf' => pc = "entering" /\ pc' = "entering"]_vars
  <2> SUFFICES ASSUME IInv, AskedInv, Next, ~Deaf, Deaf'
               PROVE  pc = "entering" /\ pc' = "entering"
    OBVIOUS
  <2>1. TestRun \/ EnterLoop \/ StopSignal
    BY DEF Deaf, Next, MainStep, Start, ParseEnds, SetSignalHandlers, DumpDefault, List,
       LoadConfiguration, RewriteConfiguration, ReadLogLevel, MakePidFile, ReadShowBodyFor,
       IncreaseFDLimit, InitServer, NotifyReady, LeaveLoop, StopServer, Cleanup, Throw,
       Goto, End
  <2>2. CASE TestRun
    BY <2>2 DEF AskedInv, Deaf, TestRun, loopVars
  <2>3. CASE EnterLoop
    BY <2>3 DEF Deaf, EnterLoop, Goto, loopVars
  <2>4. CASE StopSignal
    <3>1. pc' = pc /\ FlexisipStop /\ pc \in {"entering", "looping"}
      BY <2>4 DEF StopSignal, End, Deaf
    <3>2. pc # "looping" \/ run # 0 \/ asked
      BY DEF IInv, StopInv
    <3>3. CASE pc = "looping" /\ run # 0
      <4>1. quit'
        BY <3>1, <3>3, Zenon DEF FlexisipStop
      <4> QED
        BY <4>1 DEF Deaf
    <3>4. CASE pc = "looping" /\ run = 0
      BY <3>1, <3>2, <3>4 DEF FlexisipStop, Deaf
    <3> QED
      BY <3>1, <3>3, <3>4
  <2> QED
    BY <2>1, <2>2, <2>3, <2>4
<1> QED
  BY <1>1, AskedInductive, PTL DEF Spec, DeafOnlyBeforeTheLoop

\* The places of main in the order of its lines
Order == <<"options", "dump", "list", "load", "rewrite", "log-level", "pidfile", "show-body",
           "limit", "configuring", "initialised", "ready", "entering", "looping", "left",
           "cleaning">>
After(at, next) == \E i, j \in 1..16 : i < j /\ Order[i] = at /\ Order[j] = next
MainGoesForward ==
    [][/\ pc # "down" /\ pc' \notin {pc, "down"} => After(pc, pc')
       /\ MainStep => pc' # pc]_vars

(* Each step of main goes on to a later place or ends the process: the only    *)
(* loop a process can stay in is sofia-sip's (flexisip-conference.cc:446-727). *)
THEOREM MainHasNoLoopOfItsOwn == Spec => MainGoesForward
<1>1. Next => /\ pc # "down" /\ pc' \notin {pc, "down"} => After(pc, pc')
              /\ MainStep => pc' # pc
  <2> SUFFICES ASSUME Next
               PROVE  /\ pc # "down" /\ pc' \notin {pc, "down"} => After(pc, pc')
                      /\ MainStep => pc' # pc
    OBVIOUS
  <2>1. MainStep => pc' # pc
    BY DEF MainStep, SetSignalHandlers, DumpDefault, List, LoadConfiguration,
       RewriteConfiguration, ReadLogLevel, MakePidFile, ReadShowBodyFor, IncreaseFDLimit,
       InitServer, NotifyReady, TestRun, EnterLoop, LeaveLoop, StopServer, Cleanup, Goto, End
  <2>2. ASSUME pc # "down", pc' \notin {pc, "down"} PROVE After(pc, pc')
    <3>1. \/ \E i \in 1..15 : Order[i] = pc /\ Order[i + 1] = pc'
          \/ Order[12] = pc /\ Order[15] = pc'
      <4>1. MainStep
        BY <2>2 DEF Next, Start, ParseEnds, Throw, StopSignal, Goto, End
      <4>2. \/ <<pc, pc'>> \in
                 {<<"options", "dump">>, <<"dump", "list">>, <<"list", "load">>,
                  <<"load", "rewrite">>, <<"rewrite", "log-level">>, <<"log-level", "pidfile">>,
                  <<"pidfile", "show-body">>, <<"show-body", "limit">>}
            \/ <<pc, pc'>> \in
                 {<<"limit", "configuring">>, <<"configuring", "initialised">>,
                  <<"initialised", "ready">>, <<"ready", "entering">>, <<"entering", "looping">>,
                  <<"looping", "left">>, <<"left", "cleaning">>}
            \/ <<pc, pc'>> = <<"ready", "left">>
        BY <2>2, <4>1 DEF MainStep, SetSignalHandlers, DumpDefault, List, LoadConfiguration,
           RewriteConfiguration, ReadLogLevel, MakePidFile, ReadShowBodyFor, IncreaseFDLimit,
           InitServer, NotifyReady, TestRun, EnterLoop, LeaveLoop, StopServer, Cleanup, Goto, End
      <4> QED
        BY <4>2 DEF Order
    <3>2. 12 \in 1..16 /\ 15 \in 1..16 /\ \A i \in 1..15 : i \in 1..16 /\ i + 1 \in 1..16 /\ i < i + 1
      OBVIOUS
    <3> QED
      BY <3>1, <3>2 DEF After
  <2> QED
    BY <2>1, <2>2
<1> QED
  BY <1>1, PTL DEF Spec, MainGoesForward, vars

=============================================================================
