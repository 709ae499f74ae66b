------------------------------ MODULE Console -------------------------------
(***************************************************************************)
(* One shell at its console (exec_shell and shellProcess, shell.c): the    *)
(* line being typed, the screen it is shown on, the commands that print    *)
(* their output there whenever they are done, and the switches to other    *)
(* consoles, which save the screen.                                        *)
(*                                                                         *)
(* The user may press any key at any time; what a line means is left open  *)
(* (CommandLine).  The shell and its commands take turns between their     *)
(* statements; a sequence of terminal calls is not interrupted.            *)
(***************************************************************************)
EXTENDS Terminal, FiniteSets

CONSTANTS
    PromptLen,      \* length of the prompt "plush 1$ " (9 in the code)
    Chars,          \* characters the user types
    Block,          \* the character 219
    Output,         \* what a command prints
    Mark,           \* the digit switchTaskWrapper shows
    Message,        \* what printf shows for Ctrl-C and for a line it refuses
    Commands,       \* the commands that are started
    NoReport,       \* no report is waiting
    MaxLine         \* bound: characters of a line

ASSUME ConsoleAssumption ==
    /\ PromptLen \in Nat \ {0} /\ MaxLine \in Nat
    \* prompt, line and cursor fit on the screen
    /\ PromptLen + MaxLine + 1 <= Size

\* The characters of the prompt are told apart by their places.
PromptText == [i \in 1 .. PromptLen |-> IF i = PromptLen THEN Blank ELSE i]

VARIABLES
    screen,         \* cells and cursor while this console is on the screen
    saved,          \* those saved while it is not (terBuf, cur)
    at,             \* the statement of exec_shell, or "off"
    blink,          \* is the cursor shown?
    command,        \* the list of the characters typed
    keptIsLive,     \* does shellProcess still know the list exec_shell fills?
    stop,           \* does kernel_main want the console to stop?
    cmd,            \* where each command is
    report,         \* the sender waiting on the shell's channel: command, last?
    torn,           \* history: has the line on the screen been torn apart?
    promptStart     \* history: the column the last prompt began at

shell   == <<at, blink, command, keptIsLive, promptStart>>
others  == <<stop, cmd, report>>
vars    == <<screen, saved, shell, others, torn>>

Init ==
    /\ screen = terminal_write(terminal_initialize, PromptText)
    /\ saved = terminal_write(terminal_initialize, PromptText)
    /\ at = "off" /\ blink = FALSE
    /\ command = <<>> /\ keptIsLive = TRUE
    /\ stop = FALSE
    /\ cmd = [c \in Commands |-> "none"]
    /\ report = NoReport
    /\ torn = FALSE /\ promptStart = 0

Editing == at \in {"blink", "key", "poll", "pollStop"}

\* delchar tears a line apart at the first cell, where it does not go back.
Tears == torn \/ screen.cursor = 0

\* printf of the prompt; what follows it belongs to a new line.
ShowPrompt(t) ==
    /\ screen' = terminal_write(t, PromptText)
    /\ promptStart' = column(t)
    /\ torn' = FALSE

-----------------------------------------------------------------------------
\* exec_shell: the cursor, half a second on and half a second off
Blinks ==
    /\ at = "blink" /\ at' = "key"
    /\ \/ /\ blink' = ~blink
          /\ screen' = terminal_putchar(terminal_delchar(screen),
                                        IF blink THEN Blank ELSE Block)
          /\ torn' = Tears
       \/ UNCHANGED <<blink, screen, torn>>
    /\ UNCHANGED <<saved, command, keptIsLive, promptStart, others>>

NoKey ==
    /\ at = "key" /\ at' = "poll"
    /\ UNCHANGED <<screen, saved, blink, command, keptIsLive, promptStart,
                   others, torn>>

Type(c) ==
    /\ at = "key" /\ at' = "poll"
    /\ Len(command) < MaxLine
    /\ screen' = terminal_putchar(terminal_putchar(terminal_delchar(screen), c), Block)
    /\ command' = Append(command, c)
    /\ torn' = Tears
    /\ UNCHANGED <<saved, blink, keptIsLive, promptStart, others>>

\* A backspace that does not look at the column.
Erase_Anywhere ==
    /\ at = "key" /\ at' = "poll"
    /\ screen' = terminal_delchar(screen)
    /\ command' = IF command = <<>> THEN <<>> ELSE Front(command)
    /\ torn' = Tears
    /\ UNCHANGED <<saved, blink, keptIsLive, promptStart, others>>

\* Backspace, not left of where the line begins after a prompt.
Erase ==
    /\ at = "key" /\ at' = "poll"
    /\ column(screen) > PromptLen
    /\ screen' = terminal_delchar(screen)
    /\ command' = IF command = <<>> THEN <<>> ELSE Front(command)
    /\ torn' = Tears
    /\ UNCHANGED <<saved, blink, keptIsLive, promptStart, others>>

\* The line is done: parseExecCommand knows no such command ...
EnterUnknown ==
    /\ at = "key" /\ at' = "prompt"
    /\ screen' = terminal_newline(terminal_write(terminal_newline(
                                      terminal_delchar(screen)), <<Message>>))
    /\ torn' = Tears
    /\ UNCHANGED <<saved, blink, command, keptIsLive, promptStart, others>>

\* ... or parseArgs, which may complain, and a process for it, for which the shell
\* waits or not.
Enter(c) ==
    /\ at = "key" /\ cmd[c] = "none"
    /\ cmd' = [cmd EXCEPT ![c] = "start"]
    /\ LET t == terminal_delchar(screen)
       IN  screen' \in {t, terminal_newline(terminal_write(t, <<Message>>))}
    /\ torn' = Tears
    /\ at' \in {"wait", "prompt"}
    /\ UNCHANGED <<saved, blink, command, keptIsLive, promptStart, stop, report>>

\* The shell takes the report that is waiting; its sender goes on.
Take ==
    /\ report' = NoReport
    /\ cmd' = [cmd EXCEPT ![report.from] = IF report.last THEN "done" ELSE "print"]

\* The loop of parseExecCommand.
WaitTakes ==
    /\ at = "wait" /\ report # NoReport
    /\ Take
    /\ at' = IF report.last THEN "prompt" ELSE "wait"
    /\ UNCHANGED <<screen, saved, blink, command, keptIsLive, promptStart,
                   stop, torn>>
WaitCtrlC ==
    /\ at = "wait" /\ at' = "prompt"
    /\ screen' = terminal_write(screen, <<Message>>)
    /\ UNCHANGED <<saved, blink, command, keptIsLive, promptStart, others, torn>>
WaitStops ==
    /\ at = "wait" /\ stop /\ at' = "prompt"
    /\ UNCHANGED <<screen, saved, blink, command, keptIsLive, promptStart,
                   others, torn>>

\* delList, empty_list, printf: exec_shell has a new list, shellProcess has not.
Prompt ==
    /\ at = "prompt" /\ at' = "poll"
    /\ ShowPrompt(screen)
    /\ command' = <<>> /\ keptIsLive' = FALSE
    /\ UNCHANGED <<saved, blink, others>>

\* A command reports: after the last report the prompt and the line again.
PollReport ==
    /\ at = "poll" /\ at' = "pollStop"
    /\ report # NoReport
    /\ Take
    /\ IF report.last
       THEN /\ screen' = terminal_write(screen, PromptText \o command \o <<Block>>)
            /\ promptStart' = column(screen)
            /\ torn' = FALSE
       ELSE UNCHANGED <<screen, torn, promptStart>>
    /\ UNCHANGED <<saved, blink, command, keptIsLive, stop>>
PollNothing ==
    /\ at = "poll" /\ at' = "pollStop"
    /\ report = NoReport
    /\ UNCHANGED <<screen, saved, blink, command, keptIsLive, promptStart,
                   others, torn>>

Goes ==
    /\ at = "pollStop" /\ ~stop /\ at' = "blink"
    /\ UNCHANGED <<screen, saved, blink, command, keptIsLive, promptStart,
                   others, torn>>
\* exec_shell returns; shellProcess saves the screen, and another console has it.
Stops ==
    /\ at = "pollStop" /\ stop
    /\ at' = "off"
    /\ stop' = FALSE
    /\ saved' = screen
    /\ UNCHANGED <<screen, blink, command, keptIsLive, promptStart, cmd,
                   report, torn>>

\* terminalLoadBuffer, terminalLoadCursor, exec_shell with the list shellProcess
\* knows; if that has been deleted, what the line is nobody can tell.
Starts ==
    /\ at = "off" /\ at' = (IF keptIsLive THEN "blink" ELSE "lost") /\ blink' = FALSE
    /\ screen' = saved
    /\ UNCHANGED <<saved, command, keptIsLive, promptStart, others, torn>>

Shell ==
    \/ Blinks \/ NoKey \/ (\E c \in Chars : Type(c)) \/ Erase \/ EnterUnknown
    \/ (\E c \in Commands : Enter(c)) \/ WaitTakes \/ WaitCtrlC \/ WaitStops \/ Prompt
    \/ PollReport \/ PollNothing \/ Goes \/ Stops \/ Starts

-----------------------------------------------------------------------------
\* shellCommandProcess.  Its output goes to the console on the screen, this one
\* or another, and comes in the way of the line if the shell does not wait.
Prints(t) ==
    /\ screen' = t
    /\ torn' = (torn \/ Editing)
    /\ UNCHANGED <<saved, shell, stop>>

Begins(c) ==
    /\ cmd[c] = "start"
    /\ cmd' = [cmd EXCEPT ![c] = "ran"]
    /\ Prints(terminal_newline(screen)) /\ UNCHANGED report

\* send refuses a report while another one is waiting.
Reports(c, from, next, last) ==
    /\ cmd[c] = from
    /\ IF report = NoReport
       THEN report' = [from |-> c, last |-> last] /\ cmd' = [cmd EXCEPT ![c] = "sends"]
       ELSE cmd' = [cmd EXCEPT ![c] = next] /\ UNCHANGED report
    /\ UNCHANGED <<screen, saved, shell, stop, torn>>

ShowsOutput(c) ==
    /\ cmd[c] = "print"
    /\ cmd' = [cmd EXCEPT ![c] = "printed"]
    /\ Prints(terminal_newline(terminal_write(terminal_delline(screen), <<Output>>)))
    /\ UNCHANGED report

Command(c) ==
    \/ Begins(c) \/ Reports(c, "ran", "print", FALSE) \/ ShowsOutput(c)
    \/ Reports(c, "printed", "done", TRUE)

\* kernel_main wants another console.
AsksToStop ==
    /\ at # "off" /\ ~stop /\ stop' = TRUE
    /\ UNCHANGED <<screen, saved, shell, cmd, report, torn>>

\* switchTaskWrapper shows the process in the last cell but one.
Switch ==
    /\ screen' = [screen EXCEPT !.cell[Size - 2] = Mark]
    /\ UNCHANGED <<saved, shell, others, torn>>

Next ==
    Shell \/ (\E c \in Commands : Command(c)) \/ AsksToStop \/ Switch

Spec == Init /\ [][Next]_vars

-----------------------------------------------------------------------------
\* The digit of switchTaskWrapper may take the place of a character.
Shows(t, cell, c) == cell # Size - 2 => t.cell[cell] = c

\* The characters of the line end two cells before the cursor; the cell between is the
\* one that blinks.
LineOn(t, line) ==
    \A i \in 1 .. Len(line) : Shows(t, Before(t.cursor, Len(line) + 2 - i), line[i])

\* The prompt ends where the line begins, or, after the first character typed behind
\* it, has lost its space to the line.
PromptAt(t, line, shift) ==
    \A i \in 1 .. PromptLen - 1 :
        Shows(t, Before(t.cursor, Len(line) + shift + PromptLen + 1 - i), PromptText[i])

\* The line being typed is on the screen: its characters, and the cell of the
\* cursor, end where the next character will go, through wraps of the row,
\* backspaces, blinking, redraws and switches of consoles.
LineIsOnScreen == Editing /\ ~torn => LineOn(screen, command)

\* Backspace cannot erase a prompt that begins a row: its characters, without the
\* space, are still there.
PromptIsKept ==
    Editing /\ ~torn /\ promptStart = 0 => \E shift \in {0, 1} : PromptAt(screen, command, shift)
=============================================================================
