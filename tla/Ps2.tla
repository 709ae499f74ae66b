-------------------------------- MODULE Ps2 ---------------------------------
(***************************************************************************)
(* The initialisation of the PS/2 controller and of the keyboard: initPs2  *)
(* and receivePs2Answer (arch/i386/cpu_init.c), sendToDevice and           *)
(* initKeyboard (arch/i386/keyboard.c).                                    *)
(*                                                                         *)
(* The controller and the keyboard are external.  The controller may fail  *)
(* its self-test, not be there or be busy; the keyboard may not be there,  *)
(* ask for a command again, and send the keys the user hits as long as it  *)
(* scans; a byte may arrive after the kernel has stopped waiting for it.   *)
(***************************************************************************)
EXTENDS Integers, Sequences

CONSTANTS
    Checks,         \* polls of receivePs2Answer (100)
    Sends,          \* times sendToDevice sends a byte (100)
    MaxComing       \* bound: bytes on the way when a key is hit

ASSUME Ps2Assumption == Checks \in Nat /\ Sends \in Nat \ {0} /\ MaxComing \in Nat

\* What the kernel reads: the answers it knows, some key, and 0 for no answer.
Nothing == 0
Ok55    == 85
Ack     == 250
Resend  == 254
Id1     == 171
Id2     == 131
Key     == 28

VARIABLES
    step,           \* the answer the kernel is to get next, or "done"
    phase,          \* is the command still to be sent, or is the kernel polling?
    polls,          \* polls without a byte
    sent,           \* times the command has been sent
    a1,             \* the first answer to IDENTIFY
    ps2Ok, keyboardOk,      \* what initPs2 and initKeyboard return
    irqOn,          \* does the controller raise interrupts?
    coming, out,    \* bytes on their way, and the one at the data port
    scanning,       \* does the keyboard send keys?
    open,           \* does the controller let the keyboard's bytes through?
    smooth          \* history: has everything gone well?

ps2Kernel   == <<step, phase, polls, sent, a1, ps2Ok, keyboardOk, irqOn>>
ps2Hardware == <<coming, out, scanning, open>>
ps2Vars     == <<ps2Kernel, ps2Hardware, smooth>>

Ps2Init ==
    /\ step = "selftest" /\ phase = "send"
    /\ polls = 0 /\ sent = 0 /\ a1 = Nothing
    /\ ps2Ok = FALSE /\ keyboardOk = FALSE /\ irqOn = FALSE
    /\ coming = <<>> /\ out \in {<<>>, <<Key>>}
    /\ scanning = TRUE /\ open = TRUE /\ smooth = TRUE

-----------------------------------------------------------------------------
\* The hardware hands out the next byte; the user hits a key.
Deliver ==
    /\ coming # <<>> /\ out = <<>>
    /\ out' = <<Head(coming)>> /\ coming' = Tail(coming)
    /\ UNCHANGED <<ps2Kernel, scanning, open, smooth>>
HitKey ==
    /\ step \notin {"selftest", "done"} /\ scanning /\ open
    /\ Len(coming) < MaxComing
    /\ coming' = Append(coming, Key) /\ smooth' = FALSE
    /\ UNCHANGED <<ps2Kernel, out, scanning, open>>

\* initPs2: the ports off, the data port flushed, no interrupts, self-test.  The byte of
\* configuration turns the first port on again, and the self-test may reset that.
SelfTest ==
    /\ step = "selftest" /\ phase = "send"
    /\ phase' = "poll"
    /\ out' = <<>>
    /\ \E answer \in {<<Ok55>>, <<Nothing>>, <<>>} :
          /\ coming' = answer
          /\ smooth' = (smooth /\ answer = <<Ok55>>)
    /\ open' \in BOOLEAN
    /\ UNCHANGED <<step, polls, sent, a1, ps2Ok, keyboardOk, irqOn, scanning>>

Commands == {"disable", "identify", "enable"}
Replies(c) == IF c = "identify" THEN <<Ack, Id1, Id2>> ELSE <<Ack>>

\* sendToDevice writes the byte, which only an open port takes to the keyboard ...
Send ==
    /\ step \in Commands /\ phase = "send" /\ sent < Sends
    /\ phase' = "poll" /\ polls' = 0 /\ sent' = sent + 1
    /\ \/ /\ open
          /\ coming' = coming \o Replies(step)
          /\ scanning' = (IF step = "identify" THEN scanning ELSE step = "enable")
          /\ UNCHANGED smooth
       \/ /\ open
          /\ coming' = Append(coming, Resend)
          /\ UNCHANGED <<scanning, smooth>>
       \/ smooth' = FALSE /\ UNCHANGED <<coming, scanning>>
    /\ UNCHANGED <<step, a1, ps2Ok, keyboardOk, irqOn, out, open>>

-----------------------------------------------------------------------------
\* What follows an answer.  Both answers to IDENTIFY are read before the first is
\* looked at; what sendToDevice returns is not looked at.
Goto(s) == /\ step' = s
           /\ phase' = IF s \in Commands THEN "send" ELSE "poll"
           /\ polls' = 0 /\ sent' = 0

After(command) ==
    CASE command = "disable"  -> "identify"
      [] command = "identify" -> "a1"
      [] command = "enable"   -> "done"

\* The end of sendToDevice; after ENABLE_SCANNING initKeyboard turns interrupts on.
Leaves ==
    /\ Goto(After(step))
    /\ keyboardOk' = (step = "enable") /\ irqOn' = (step = "enable")
    /\ UNCHANGED <<a1, ps2Ok>>

\* sendToDevice that sends a byte again as often as the keyboard asks for it.
SendAgain_Forever ==
    /\ phase' = "send" /\ polls' = 0 /\ sent' = 0
    /\ UNCHANGED <<step, a1, ps2Ok, keyboardOk, irqOn>>
SendAgain ==
    /\ phase' = "send" /\ polls' = 0
    /\ UNCHANGED <<step, sent, a1, ps2Ok, keyboardOk, irqOn>>

\* initKeyboard that does not read the second byte of the identity.
Answer_OneByte(b) ==
    /\ \/ step = "selftest" /\ ps2Ok' = (b = Ok55) /\ Goto("disable")
          /\ UNCHANGED <<a1, keyboardOk, irqOn>>
       \/ step \in Commands /\ b = Resend /\ SendAgain
       \/ step \in Commands /\ b # Resend /\ Leaves
       \/ step = "a1" /\ a1' = b /\ Goto(IF b = Id1 THEN "enable" ELSE "done")
          /\ UNCHANGED <<ps2Ok, keyboardOk, irqOn>>
    /\ open' = (open \/ (step = "selftest" /\ b = Ok55))
\* A self-test that is passed opens the port, ENABLE_FIRST_PS2.
Answer(b) ==
    /\ \/ step = "selftest" /\ ps2Ok' = (b = Ok55) /\ Goto("disable")
          /\ UNCHANGED <<a1, keyboardOk, irqOn>>
       \/ step \in Commands /\ b = Resend /\ SendAgain
       \/ step \in Commands /\ b # Resend /\ Leaves
       \/ step = "a1" /\ a1' = b /\ Goto("a2")
          /\ UNCHANGED <<ps2Ok, keyboardOk, irqOn>>
       \/ step = "a2" /\ Goto(IF a1 = Id1 THEN "enable" ELSE "done")
          /\ UNCHANGED <<a1, ps2Ok, keyboardOk, irqOn>>
    /\ open' = (open \/ (step = "selftest" /\ b = Ok55))

\* ... unless the controller is busy at every check, or the byte has been sent as
\* often as it may.
Busy ==
    /\ step \in Commands /\ phase = "send" /\ sent \in {0, Sends}
    /\ Leaves
    /\ smooth' = FALSE
    /\ UNCHANGED ps2Hardware

\* receivePs2Answer
Poll ==
    /\ step # "done" /\ phase = "poll" /\ out # <<>>
    /\ out' = <<>>
    /\ Answer(out[1])
    /\ UNCHANGED <<coming, scanning, smooth>>
PollEmpty ==
    /\ step # "done" /\ phase = "poll" /\ out = <<>> /\ polls < Checks
    /\ polls' = polls + 1
    /\ UNCHANGED <<step, phase, sent, a1, ps2Ok, keyboardOk, irqOn, ps2Hardware, smooth>>
GiveUp ==
    /\ step # "done" /\ phase = "poll" /\ out = <<>> /\ polls = Checks
    /\ Answer(Nothing)
    /\ smooth' = FALSE
    /\ UNCHANGED <<coming, out, scanning>>

Ps2Driver == SelfTest \/ Send \/ Busy \/ Poll \/ PollEmpty \/ GiveUp
Ps2Next == Ps2Driver \/ Deliver \/ HitKey

-----------------------------------------------------------------------------
\* If nothing goes wrong - every byte in time, no key hit, no command refused for
\* good - the keyboard is found and turned on, and no answer is left over that the
\* handler of the keyboard's interrupt would take for a key.
SmoothBootFindsTheKeyboard ==
    step = "done" /\ smooth =>
        ps2Ok /\ keyboardOk /\ irqOn /\ scanning /\ open /\ coming = <<>> /\ out = <<>>

\* However the controller and the keyboard behave, or if there are none, the kernel
\* gets past them.
BootGetsThrough == <>(step = "done")
=============================================================================
