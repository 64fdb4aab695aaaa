----------------------------- MODULE LiveSession -----------------------------
(***************************************************************************)
(* A streaming session that survives its connection: the driver task of    *)
(* streaming_client.rs, the LiveTerminal handle through which a user       *)
(* interface reaches it, and the streaming command-line client             *)
(* (bin/astra.rs, attach_streaming_terminal) on top.  The interface and    *)
(* the driver are tasks of their own: the interface reads the published    *)
(* status, then queues a command and waits for the reply, while the driver *)
(* may lose the attachment and recover it at any moment between.           *)
(***************************************************************************)
EXTENDS AttachmentHost

CONSTANTS MaxTyped,       \* batches of input the user types
          MaxResizes,     \* times the window changes its size
          EventLimit      \* control events the interface may leave unread

VARIABLES driver,   \* the driver task
          status,   \* the ConnectionState it publishes
          events,   \* control events queued for the interface
          command,  \* the queued command, if any
          ui        \* the command-line client

vars == <<conn, att, lease, pty, faults, driver, status, events, command, ui>>
session == <<driver, status, events, command, ui>>

NoSize == 0
NoCommand == [kind |-> "none"]
Input(n, incarnation) == [kind |-> "input", n |-> n, incarnation |-> incarnation]
ResizeTo(size) == [kind |-> "resize", size |-> size]
Detach == [kind |-> "detach"]

Synchronizing == [kind |-> "synchronizing", incarnation |-> 0]
LiveAt(incarnation) == [kind |-> "live", incarnation |-> incarnation]
Recovering == [kind |-> "recovering", incarnation |-> 0]

(* What is wrong if recovery asks the way the user first asked.            *)
KeepTakeover(readOnly, takeover) ==
  [pc |-> "starting", incarnation |-> 1, at |-> 1, readOnly |-> readOnly,
   takeover |-> takeover, token |-> IF readOnly THEN NoOne ELSE 1,
   size |-> NoSize, answer |-> "", why |-> ""]

(* The driver once the first attach is answered: the request it repeats    *)
(* keeps the token and never the takeover.                                 *)
NewDriver(readOnly, takeover) ==
  [pc |-> "starting", incarnation |-> 1, at |-> 1, readOnly |-> readOnly,
   takeover |-> FALSE, token |-> IF readOnly THEN NoOne ELSE 1,
   size |-> NoSize, answer |-> "", why |-> ""]

(* The interface starts by sending its window's size.                      *)
Init ==
  /\ \E readOnly, takeover \in BOOLEAN :
       /\ HostInit(readOnly, CHOOSE s \in Sizes : TRUE, 1)
       /\ driver = NewDriver(readOnly, takeover)
       /\ ui \in [pc : {"start"}, writable : {~readOnly}, size : Sizes,
                  typed : {0}, bound : {0}, resized : {0}, refused : {{}}]
  /\ status = Synchronizing
  /\ events = <<>>
  /\ command = NoCommand

-----------------------------------------------------------------------------
(* The interface.  It waits for the reply to each command it queues.       *)
Submit(cmd, pc) ==
  /\ command' = cmd
  /\ ui' = [ui EXCEPT !.pc = pc]

UiStart ==
  /\ ui.pc = "start"
  /\ IF ui.writable
     THEN Submit(ResizeTo(ui.size), "waiting")
     ELSE ui' = [ui EXCEPT !.pc = "idle"] /\ UNCHANGED command
  /\ UNCHANGED <<host, driver, status, events>>

(* The user types: the input is bound to the incarnation that is live, or  *)
(* discarded when none is.  Queueing it is a step of its own.              *)
Type ==
  /\ ui.pc = "idle"
  /\ ui.writable
  /\ ui.typed < MaxTyped
  /\ ui' = IF status.kind = "live"
           THEN [ui EXCEPT !.pc = "typed", !.typed = @ + 1,
                           !.bound = status.incarnation]
           ELSE [ui EXCEPT !.typed = @ + 1, !.refused = @ \cup {ui.typed + 1}]
  /\ UNCHANGED <<host, driver, status, events, command>>

SubmitInput ==
  /\ ui.pc = "typed"
  /\ Submit(Input(ui.typed, ui.bound), "waiting")
  /\ UNCHANGED <<host, driver, status, events>>

WindowChange ==
  /\ ui.pc = "idle"
  /\ ui.resized < MaxResizes
  /\ \E size \in Sizes \ {ui.size} :
       /\ command' = IF ui.writable THEN ResizeTo(size) ELSE command
       /\ ui' = [ui EXCEPT !.size = size, !.resized = @ + 1,
                           !.pc = IF ui.writable THEN "waiting" ELSE "idle"]
  /\ UNCHANGED <<host, driver, status, events>>

(* The detach key, or the end of the standard input.                       *)
DetachKey ==
  /\ ui.pc = "idle"
  /\ Submit(Detach, "leaving")
  /\ UNCHANGED <<host, driver, status, events>>

(* The interface reads a control event, or learns that the session ended.  *)
NextEvent ==
  /\ ui.pc = "idle"
  /\ \/ /\ events # <<>>
        /\ events' = Tail(events)
        /\ ui' = CASE Head(events) = "lease" -> [ui EXCEPT !.writable = FALSE]
                   [] Head(events) = "exited" -> [ui EXCEPT !.pc = "done"]
                   [] OTHER -> ui
     \/ /\ events = <<>> /\ driver.pc = "ended"
        /\ ui' = [ui EXCEPT !.pc = "done"]
        /\ UNCHANGED events
  /\ UNCHANGED <<host, driver, status, command>>

(* Leaving the interface drops the session and aborts its driver, and with *)
(* it the attachment.                                                      *)
Abort ==
  /\ ui.pc = "done"
  /\ driver.pc # "ended"
  /\ att' = Drop(driver.at)
  /\ driver' = [driver EXCEPT !.pc = "ended", !.why = "aborted"]
  /\ UNCHANGED <<conn, lease, pty, faults, status, events, command, ui>>

-----------------------------------------------------------------------------
(* The driver.                                                             *)
Failed == [driver EXCEPT !.pc = "failed", !.incarnation = @ + 1]
EndedBy(why) == [driver EXCEPT !.pc = "ended", !.why = why]
Dropped == Drop(driver.at)

(* The interface gets its reply: it leaves when it asked to, or when a     *)
(* resize failed.                                                          *)
Reply(done) ==
  /\ command' = NoCommand
  /\ ui' = [ui EXCEPT !.pc = IF \/ command.kind = "detach"
                                \/ command.kind = "resize" /\ ~done
                             THEN "done" ELSE "idle"]

(* The reply that input was not sent and will not be.                      *)
Refuse ==
  /\ command' = NoCommand
  /\ ui' = [ui EXCEPT !.pc = "idle", !.refused = @ \cup {command.n}]

(* A driver that ended answers nothing more.                               *)
ReplyLost ==
  /\ driver.pc = "ended"
  /\ command # NoCommand
  /\ Reply(FALSE)
  /\ UNCHANGED <<host, driver, status, events>>

(* A new attachment starts with the last size the interface asked for.     *)
StartRun ==
  /\ driver.pc = "starting"
  /\ LET resize == driver.size # NoSize /\ ~driver.readOnly
     IN \/ /\ driver' = [driver EXCEPT !.pc = "running"]
           /\ att' = IF resize THEN Sent(driver.at, ResizeTo(driver.size)) ELSE att
        \/ /\ resize /\ WriteMayFail(driver.at)
           /\ driver' = Failed
           /\ att' = Dropped
  /\ UNCHANGED <<conn, lease, pty, faults, status, events, command, ui>>

(* An event of the attachment: a state makes the session live, a change of *)
(* the lease makes its next recovery read-only, Exited ends it.  Control   *)
(* events go to a bounded queue; the session ends when it is full.         *)
RunEvent ==
  /\ driver.pc = "running"
  /\ att[driver.at].down # <<>>
  /\ LET event == Head(att[driver.at].down)
         seen == [driver EXCEPT !.readOnly = @ \/ event = "lease"]
     IN /\ att' = IF event = "exited" \/ (event # "state" /\ Len(events) >= EventLimit)
                  THEN Dropped ELSE [att EXCEPT ![driver.at].down = Tail(@)]
        /\ \/ /\ event = "state"
              /\ status' = LiveAt(driver.incarnation)
              /\ UNCHANGED <<driver, events>>
           \/ /\ event # "state" /\ Len(events) < EventLimit
              /\ events' = Append(events, event)
              /\ driver' = IF event = "exited" THEN EndedBy("exited") ELSE seen
              /\ UNCHANGED status
           \/ /\ event # "state" /\ Len(events) >= EventLimit
              /\ driver' = EndedBy("slow consumer")
              /\ UNCHANGED <<status, events>>
  /\ UNCHANGED <<conn, lease, pty, faults, command, ui>>

(* The attachment ends under the driver.                                   *)
RunEnds ==
  /\ driver.pc = "running"
  /\ Ended(driver.at)
  /\ driver' = Failed
  /\ att' = Dropped
  /\ UNCHANGED <<conn, lease, pty, faults, status, events, command, ui>>

(* What is wrong if the driver sends whatever input is queued.             *)
SendAnyInput ==
  /\ driver.pc = "running"
  /\ command.kind = "input"
  /\ att' = Sent(driver.at, command)
  /\ Reply(TRUE)
  /\ UNCHANGED <<conn, lease, pty, faults, driver, status, events>>

(* Input is sent to the attachment it was typed at, and to no other.       *)
RunInput ==
  /\ driver.pc = "running"
  /\ command.kind = "input"
  /\ \/ /\ command.incarnation # driver.incarnation
        /\ Refuse
        /\ UNCHANGED <<att, driver>>
     \/ /\ command.incarnation = driver.incarnation
        /\ att' = Sent(driver.at, command)
        /\ Reply(TRUE)
        /\ UNCHANGED driver
     \/ /\ command.incarnation = driver.incarnation
        /\ WriteMayFail(driver.at)
        /\ att' = Dropped
        /\ driver' = Failed
        /\ Reply(FALSE)
  /\ UNCHANGED <<conn, lease, pty, faults, status, events>>

(* A size is kept for the next attachment and sent to this one.            *)
RunResize ==
  /\ driver.pc = "running"
  /\ command.kind = "resize"
  /\ LET kept == [driver EXCEPT !.size = command.size]
     IN \/ /\ att' = IF driver.readOnly THEN att ELSE Sent(driver.at, command)
           /\ driver' = kept
           /\ Reply(TRUE)
        \/ /\ ~driver.readOnly /\ WriteMayFail(driver.at)
           /\ att' = Dropped
           /\ driver' = [kept EXCEPT !.pc = "failed", !.incarnation = @ + 1]
           /\ Reply(FALSE)
  /\ UNCHANGED <<conn, lease, pty, faults, status, events>>

RunDetach ==
  /\ driver.pc = "running"
  /\ command.kind = "detach"
  /\ att' = [Sent(driver.at, Detach) EXCEPT ![driver.at].closed = TRUE,
                                            ![driver.at].down = <<>>]
  /\ driver' = EndedBy("detached")
  /\ Reply(TRUE)
  /\ UNCHANGED <<conn, lease, pty, faults, status, events>>

-----------------------------------------------------------------------------
(* Recovery.                                                               *)
BeginAttempt ==
  /\ driver.pc = "failed"
  /\ status' = Recovering
  /\ driver' = [driver EXCEPT !.pc = "waiting"]
  /\ UNCHANGED <<host, events, command, ui>>

(* What is wrong if a size that arrives while disconnected is only         *)
(* acknowledged.                                                           *)
DrainForgets ==
  /\ driver.pc \in {"waiting", "asking"}
  /\ command.kind = "resize"
  /\ Reply(TRUE)
  /\ UNCHANGED <<host, driver, status, events>>

(* Commands that arrive meanwhile: a size is kept, a detach ends the       *)
(* session, input is refused.                                              *)
DrainResize ==
  /\ driver.pc \in {"waiting", "asking"}
  /\ command.kind = "resize"
  /\ driver' = [driver EXCEPT !.size = command.size]
  /\ Reply(TRUE)
  /\ UNCHANGED <<host, status, events>>

(* The attempt in progress is dropped with what the server answered.       *)
DropAttempt ==
  IF driver.answer = "attached" THEN Drop(Len(att)) ELSE att

DrainDetach ==
  /\ driver.pc \in {"waiting", "asking"}
  /\ command.kind = "detach"
  /\ driver' = EndedBy("detached")
  /\ att' = DropAttempt
  /\ Reply(TRUE)
  /\ UNCHANGED <<conn, lease, pty, faults, status, events>>

DrainInput ==
  /\ driver.pc \in {"waiting", "asking"}
  /\ command.kind = "input"
  /\ Refuse
  /\ UNCHANGED <<host, driver, status, events>>

(* After the delay: reconnect if the connection is lost, and ask again.    *)
Ask ==
  /\ driver.pc = "waiting"
  /\ conn' = "up"
  /\ driver' = [driver EXCEPT !.pc = "asking", !.answer = "asked"]
  /\ UNCHANGED <<att, lease, pty, faults, status, events, command, ui>>

(* The server answers.                                                     *)
Answer ==
  /\ driver.pc = "asking"
  /\ driver.answer = "asked"
  /\ conn = "up"
  /\ LET refusal == Refusal(driver.readOnly, driver.takeover, driver.token)
     IN \/ /\ refusal # ""
           /\ driver' = [driver EXCEPT !.answer = refusal]
           /\ UNCHANGED host
        \/ /\ Admit(driver.readOnly, driver.takeover, driver.token, driver.incarnation)
           /\ driver' = [driver EXCEPT !.answer = "attached"]
  /\ UNCHANGED <<status, events, command, ui>>

Attached ==
  /\ driver.pc = "asking"
  /\ driver.answer = "attached"
  /\ driver' = [driver EXCEPT !.pc = "starting", !.at = Len(att), !.answer = "",
                              !.token = att[Len(att)].token]
  /\ status' = Synchronizing
  /\ UNCHANGED <<host, events, command, ui>>


(* The error codes that is_permanent_recovery_error retries.               *)
Transient == {"quota_exceeded", "lease_conflict", "unavailable", "busy"}

Refused ==
  /\ driver.pc = "asking"
  /\ driver.answer \notin {"asked", "attached"}
  /\ IF driver.answer \in Transient
     THEN /\ driver' = [driver EXCEPT !.pc = "waiting", !.answer = ""]
          /\ status' = Recovering
     ELSE /\ driver' = EndedBy(driver.answer)
          /\ UNCHANGED status
  /\ UNCHANGED <<host, events, command, ui>>

(* The attempt takes too long or loses its connection: the driver drops    *)
(* it, answered or not, and tries again.                                   *)
AttemptFails ==
  /\ driver.pc = "asking"
  /\ \/ /\ conn = "lost"
        /\ UNCHANGED faults
     \/ /\ conn = "up"
        /\ Fault
  /\ att' = DropAttempt
  /\ driver' = [driver EXCEPT !.pc = "waiting", !.answer = ""]
  /\ status' = Recovering
  /\ UNCHANGED <<conn, lease, pty, events, command, ui>>

-----------------------------------------------------------------------------
UiStep ==
  UiStart \/ Type \/ SubmitInput \/ WindowChange \/ DetachKey \/ NextEvent \/ Abort

Run == StartRun \/ RunEvent \/ RunEnds
RunCommand == RunInput \/ RunResize \/ RunDetach
Drain == DrainResize \/ DrainDetach \/ DrainInput
Recover == BeginAttempt \/ Ask \/ Attached \/ Refused \/ AttemptFails

Next ==
  \/ UiStep \/ Run \/ RunCommand \/ Drain \/ ReplyLost \/ Recover \/ Answer
  \/ (HostStep \/ LeaseExpires) /\ UNCHANGED session

Spec == Init /\ [][Next]_vars

(* The tasks are scheduled, a reconnect finally succeeds, and the server's *)
(* handlers run; the user and the faults promise nothing.                  *)
Fairness ==
  /\ WF_vars(UiStart \/ SubmitInput \/ NextEvent \/ Abort)
  /\ WF_vars(Run)
  /\ WF_vars(RunCommand \/ Drain \/ ReplyLost)
  /\ WF_vars(BeginAttempt \/ Ask \/ Attached \/ Refused \/ (conn = "lost" /\ AttemptFails))
  /\ WF_vars(Answer)
  /\ WF_vars(HandlerStep /\ UNCHANGED session)

FairSpec == Spec /\ Fairness

-----------------------------------------------------------------------------
(* Input reaches the process only through the attachment whose screen the  *)
(* user saw when typing it, and input that was answered as discarded never *)
(* reaches it (streaming_client.rs:235, :304): nothing is replayed into a  *)
(* screen that recovery has changed.                                       *)
InputMeetsItsScreen ==
  \A i \in DOMAIN pty.input :
    /\ pty.input[i].cmd.incarnation = att[pty.input[i].via].by
    /\ pty.input[i].cmd.n \notin ui.refused

(* The window's last size reaches the process although it changed while    *)
(* the session was recovering (streaming_client.rs:200, :302), unless the  *)
(* session became read-only, ended, or goes on recovering for ever.        *)
SizeSettles ==
  <>[](\/ pty.size = ui.size \/ pty.exited
       \/ ~ui.writable \/ driver.readOnly \/ ui.pc = "done"
       \/ driver.pc \in {"waiting", "asking"})

(* The detach key ends the session whatever it is doing, and so does the   *)
(* end of the process, even when it is only met again in recovery          *)
(* (streaming_client.rs:227, :303, :317).                                  *)
SessionEnds == <>[](ui.pc = "leaving" \/ pty.exited => ui.pc = "done")

(* An interrupted session does not reconnect for ever without result: it   *)
(* gets its terminal back or ends.                                         *)
RecoveryEnds == driver.pc = "waiting" ~> driver.pc \in {"running", "ended"}

(* A quota that is full for the moment does not end a session that is      *)
(* recovering.                                                             *)
QuotaIsRetried == driver.why # "quota"
=============================================================================
