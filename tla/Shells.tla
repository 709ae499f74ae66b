------------------------------- MODULE Shells -------------------------------
(***************************************************************************)
(* The programs of FemurOS on its scheduler: kernel_main, which creates    *)
(* the shells and the process of the games and then switches consoles; the *)
(* shells; the commands they start; and snake.  They share the channels    *)
(*                                                                         *)
(*   0        kernel_main stops the console that is on the screen          *)
(*   1        answers to kernel_main; function, arguments and shell of a   *)
(*            new command                                                  *)
(*   id       kernel_main starts the shell of that number                  *)
(*   10+id    a command reports to its shell                               *)
(*   42, 43   the games are asked for, and put on the screen               *)
(*                                                                         *)
(* Every step is one action of Kernel made by the process on the CPU, or a *)
(* step inside its program, or a timer interrupt.  pc[p] is the place of p *)
(* in its program.  Keys are what the user happens to press.               *)
(***************************************************************************)
EXTENDS Kernel

CONSTANTS
    NumShells,          \* shells that kernel_main creates (9 in the code)
    Consoles,           \* consoles the user switches to: shells, or Game
    Game,               \* the console of the games (key A_ACCENT)
    Functions,          \* the commands the user types
    Echo, Sleep, GameCmd, ExitCmd,
    MayBackground,      \* does the user end commands with & ?
    MayCtrlC,           \* does the user press Ctrl-C?
    Zero, E5D, DEAD, ArgsMsg    \* values on the channels, besides shell ids

ASSUME ShellsAssumption ==
    /\ Procs \subseteq Nat /\ Main = 0    \* blocks are named in the order of creation
    /\ NumShells \in 1 .. 9     \* shell ids, their report channels and 42, 43 differ
    /\ {0, 1, 42, 43} \cup (2 .. NumShells + 1) \cup (12 .. NumShells + 11) \subseteq Channels
    /\ {Zero, E5D, DEAD, ArgsMsg} \cup Functions \cup (2 .. NumShells + 1) \subseteq Values
    /\ DEAD # Zero
    /\ Consoles \subseteq (2 .. NumShells + 1) \cup {Game}
    /\ Functions \subseteq {Echo, Sleep, GameCmd, ExitCmd}
    /\ MayBackground \in BOOLEAN /\ MayCtrlC \in BOOLEAN

VARIABLES
    pc,         \* where each process is in its program
    currentId,  \* local of kernel_main: the console on the screen
    myId,       \* local of shellProcess and shellCommandProcess: a shell's number
    job,        \* local of shellCommandProcess: the function it was sent
    asked       \* what the shell that created a command wants it to do

progVars == <<pc, currentId, myId, job, asked>>
shVars   == <<vars, progVars>>

NoJob == [fn |-> NoValue, sh |-> 0, bg |-> FALSE]

ShInit ==
    /\ Init
    /\ pc = [p \in Procs |-> IF p = Main THEN "boot" ELSE "none"]
    /\ currentId = 0
    /\ myId = [p \in Procs |-> 0]
    /\ job = [p \in Procs |-> NoValue]
    /\ asked = [p \in Procs |-> NoJob]

-----------------------------------------------------------------------------
c0 == currentProcess
At(l)   == pc[c0] = l
Goto(l) == pc' = [pc EXCEPT ![c0] = l]

Send(ch, v) == SendBlocks(ch, v) \/ SendWakes(ch, v) \/ SendRefused(ch, v)
Receive(ch) == ReceiveBlocks(ch) \/ ReceiveTakes(ch)
Probe(ch)   == channels[ch].state

\* From l to l2 with one kernel call, or none; the locals keep their values.
Locals == <<currentId, myId, job, asked>>
Step(l, call_, l2) == At(l) /\ call_ /\ Goto(l2) /\ UNCHANGED Locals
Test(l, l2)        == At(l) /\ Goto(l2) /\ UNCHANGED <<vars, Locals>>

\* newProcess: the blocks of the heap are taken in the order of their names.
Create(l, l2, first, what) ==
    LET p == maxId + 1 IN
    /\ At(l)
    /\ p \in Procs /\ NewProcess(p)
    /\ pc' = [pc EXCEPT ![c0] = l2, ![p] = first]
    /\ asked' = [asked EXCEPT ![p] = what]
    /\ UNCHANGED <<currentId, myId, job>>

-----------------------------------------------------------------------------
\* kernel_main: the shells get their number on channel 1 and answer on it, the
\* games get a process, shell 2 is started, and the loop switches consoles.
Boot == Step("boot", EnableTaskSwitch, "create")
CreateShell  == maxId < NumShells /\ Create("create", "number", "shellStart", NoJob)
NumberShell  == Step("number", Send(1, maxId + 1), "shellReady")
ShellReady   == Step("shellReady", Receive(1), "create")
CreateScreen == maxId = NumShells /\ Create("create", "firstShell", "screen", NoJob)
FirstShell ==
    /\ At("firstShell") /\ Send(2, Zero) /\ Goto("idle")
    /\ currentId' = 2
    /\ UNCHANGED <<myId, job, asked>>

Idle == Step("idle", Yield, "keys")
NoKeys == Step("keys", Yield, "keys")

\* A switch that does not wait for the answer of the console it stops.
StopConsole_NoWait(k) ==
    /\ At("keys") /\ k # currentId
    /\ currentId' = k
    /\ Send(0, E5D)
    /\ Goto("start")
    /\ UNCHANGED <<myId, job, asked>>

\* Ctrl, Shift and the key of another console.
StopConsole(k) ==
    /\ At("keys") /\ k # currentId
    /\ currentId' = k
    /\ Send(0, E5D)
    /\ Goto("stopped")
    /\ UNCHANGED <<myId, job, asked>>
AwaitStopped == Step("stopped", Receive(1), "start")

StartConsole ==
    Step("start", Send(IF currentId = Game THEN 43 ELSE currentId, Zero), "idle")

KernelMain ==
    \/ Boot \/ CreateShell \/ NumberShell \/ ShellReady \/ CreateScreen \/ FirstShell
    \/ Idle \/ NoKeys \/ (\E k \in Consoles : StopConsole(k))
    \/ AwaitStopped \/ StartConsole

-----------------------------------------------------------------------------
\* shellProcess
ShellStart == Step("shellStart", Receive(1), "shellNumbered")
ShellNumbered ==
    /\ At("shellNumbered")
    /\ myId' = [myId EXCEPT ![c0] = received[c0]]
    /\ Send(1, DEAD) /\ Goto("shellOff")
    /\ UNCHANGED <<currentId, job, asked>>
ShellOn == Step("shellOff", Receive(myId[c0]), "line")

\* A command's report is waiting for the shell.
Reported == Probe(10 + myId[c0]) = "Sender"

\* exec_shell: no complete line yet, or a command parseExecCommand does not know.
NoCommand == Test("line", IF Reported THEN "takeDone" ELSE "pollStop")

\* parseExecCommand: the command's process, and its three messages.
Start(f, bg) == Create("line", "sendFunction", "cmdStart",
                       [fn |-> f, sh |-> myId[c0], bg |-> bg])
\* The command a shell has created last.
CommandOf(p) == CHOOSE q \in Procs : /\ asked[q].sh = myId[p]
                                    /\ \A r \in Procs : asked[r].sh = myId[p] => r <= q
Mine == CommandOf(c0)
SendFunction == Step("sendFunction", Send(1, asked[Mine].fn), "sendArgs")
SendArgs     == Step("sendArgs", Send(1, ArgsMsg), "sendId")
\* parseExecCommand that does not send the number of its shell.
SendId_Lost  == Test("sendId", IF asked[Mine].bg THEN "pollDone" ELSE "wait")
SendId       == Step("sendId", Send(1, myId[c0]),
                     IF asked[Mine].bg THEN "pollDone" ELSE "wait")

\* The loop that waits for a command in the foreground.
WaitProbe == Test("wait", IF Reported THEN "waitTake" ELSE "waitKeys")
WaitTake  == Step("waitTake", Receive(10 + myId[c0]), "waitTaken")
WaitTaken == Test("waitTaken", IF received[c0] = DEAD THEN "pollDone" ELSE "waitKeys")
CtrlC     == MayCtrlC /\ Test("waitKeys", "pollDone")
\* The wait for a command that does not look for the stop signal.
WaitStop_Ignored == Probe(0) = "Sender" /\ Step("waitKeys", Yield, "wait")
WaitStop  == Probe(0) = "Sender" /\ Test("waitKeys", "pollDone")
WaitOn    == Probe(0) # "Sender" /\ Step("waitKeys", Yield, "wait")

\* The rest of the iteration of exec_shell: reports of commands, the stop signal.
PollDone  == Test("pollDone", IF Reported THEN "takeDone" ELSE "pollStop")
TakeDone  == Step("takeDone", Receive(10 + myId[c0]), "pollStop")
PollStop  == Probe(0) = "Sender" /\ Test("pollStop", "takeStop")
NoStop    == Probe(0) # "Sender" /\ Step("pollStop", Yield, "line")
TakeStop  == Step("takeStop", Receive(0), "tookStop")
\* A shell that stops without answering kernel_main.
ShellOff_Silent == received[c0] = E5D /\ Test("tookStop", "shellOff")
\* kernel_main sends nothing but E5D on channel 0.
ShellOff  == received[c0] = E5D /\ Step("tookStop", Send(1, DEAD), "shellOff")

ShellProcess ==
    \/ ShellStart \/ ShellNumbered \/ ShellOn \/ NoCommand
    \/ \E f \in Functions, bg \in {FALSE, MayBackground} : Start(f, bg)
    \/ SendFunction \/ SendArgs \/ SendId
    \/ WaitProbe \/ WaitTake \/ WaitTaken \/ CtrlC \/ WaitStop \/ WaitOn
    \/ PollDone \/ TakeDone \/ PollStop \/ NoStop \/ TakeStop \/ ShellOff

-----------------------------------------------------------------------------
\* shellCommandProcess
CmdFunction == Step("cmdStart", Receive(1), "cmdArgs")
CmdArgs ==
    /\ At("cmdArgs")
    /\ job' = [job EXCEPT ![c0] = received[c0]]
    /\ Receive(1) /\ Goto("cmdId")
    /\ UNCHANGED <<currentId, myId, asked>>
CmdId == Step("cmdId", Receive(1), "cmdNumbered")
CmdNumbered ==
    /\ At("cmdNumbered") /\ Goto("run")
    /\ myId' = [myId EXCEPT ![c0] = received[c0]]
    /\ UNCHANGED <<vars, currentId, job, asked>>

\* The functions: echo_func computes, sleep_func polls the clock, game_func
\* asks the process of the games for one and waits for its end, exit_func ends
\* the process.
CmdEcho  == job[c0] = Echo /\ Test("run", "ended")
CmdSleep == job[c0] = Sleep /\ (Step("run", Yield, "run") \/ Test("run", "ended"))
CmdGame  == job[c0] = GameCmd /\ Step("run", Send(42, Zero), "playing")
CmdPlays == Step("playing", Receive(42), "ended")

CmdQuits == job[c0] = ExitCmd /\ Step("run", Exit, "dead")

\* A command that reports the end of its output before it prints.
CmdEnded_Early == Step("ended", Send(10 + myId[c0], DEAD), "printed")
CmdEnded   == Step("ended", Send(10 + myId[c0], Zero), "printed")
\* A command that does not report the end of its output.
CmdPrinted_Lost == Test("printed", "exit")
CmdPrinted == Step("printed", Send(10 + myId[c0], DEAD), "exit")
CmdExit    == Step("exit", Exit, "dead")

ShellCommandProcess ==
    \/ CmdFunction \/ CmdArgs \/ CmdId \/ CmdNumbered
    \/ CmdEcho \/ CmdSleep \/ CmdGame \/ CmdPlays \/ CmdQuits
    \/ CmdEnded \/ CmdPrinted \/ CmdExit

-----------------------------------------------------------------------------
\* screenProcess and snake
GameAsked   == Step("screen", Receive(42), "snake")
SnakeOn     == Step("snake", Receive(43), "play")
SnakeStop   == Probe(0) = "Sender" /\ Test("play", "snakeTake")
SnakeTake   == Step("snakeTake", Receive(0), "snakeTook")
SnakeOff    == received[c0] = E5D /\ Step("snakeTook", Send(1, Zero), "snake")
SnakePlays  == Probe(0) # "Sender" /\ Step("play", Yield, "play")
SnakeLoses  == Probe(0) # "Sender" /\ Test("play", "gameOver")
GameOver    == Step("gameOver", Send(42, DEAD), "screen")

ScreenProcess ==
    \/ GameAsked \/ SnakeOn \/ SnakeStop \/ SnakeTake \/ SnakeOff
    \/ SnakePlays \/ SnakeLoses \/ GameOver

-----------------------------------------------------------------------------
\* The process on the CPU takes the next step of its program.
Program == KernelMain \/ ShellProcess \/ ShellCommandProcess \/ ScreenProcess
Tick    == OnTimerInterrupt /\ UNCHANGED progVars
ShNext  == Program \/ Tick
ShSpec  == ShInit /\ [][ShNext]_shVars

-----------------------------------------------------------------------------
OffScreen == {"none", "boot", "shellStart", "shellNumbered", "shellOff"}
CommandAt == {"cmdStart", "cmdArgs", "cmdId", "cmdNumbered", "run", "playing",
              "ended", "printed", "exit", "dead"}
GameAt    == {"screen", "snake", "gameOver"}

\* The consoles that read the keyboard and draw: shells and snake, from the
\* message that starts them to the answer they give when they are stopped.
OnScreen == {p \in Allocated \ {Main} :
                /\ pc[p] \notin OffScreen \cup CommandAt \cup GameAt
                /\ call[p].op # "receive" \/ pc[p] \notin {"line", "play"}}

\* kernel_main stops the console that is running before it starts another one
\* ("arrete le shell en cours d'execution", "attend de recevoir un message de
\* sa part"): two consoles never read the keyboard and draw at the same time.
OneConsole == \A p, q \in OnScreen : p = q

\* Channel 1 serves kernel_main and every new command.  The function and the
\* shell number a command has received when it runs are the ones its own shell
\* sent it, whichever processes use the channel meanwhile.
HandshakeReachesItsCommand ==
    \A p \in Procs :
        pc[p] \in {"run", "playing", "ended", "printed", "exit"} =>
            job[p] = asked[p].fn /\ myId[p] = asked[p].sh

\* A shell takes 0xDEAD only from a command of its own that has printed and waits
\* in its last send for just this ("signale que l'impression est terminee, il n'y a
\* plus rien a faire"), and taking it lets this command end: no report is taken
\* twice, and none stands for a command that exit_func ended before it printed.  It
\* need not be the command the shell waits for: with a command in the background,
\* the report that ends the wait may be of the other one.
DeadMeansPrinted == [][
    \A p \in Procs :
        pc[p] \in {"waitTake", "takeDone"} /\ pc'[p] # pc[p] /\ received'[p] = DEAD =>
            \E q \in Procs :
                /\ asked[q].sh = myId[p] /\ pc[q] = "exit"
                /\ state[q] = "BlockedWriting" /\ state'[q] = "Runnable"]_shVars
=============================================================================
