------------------------------- MODULE Console -------------------------------
(***************************************************************************)
(* One console session at a time on each kind of port: the UART console,   *)
(* the TCP console, the SSH shell, and Neutrino's bvstk-shell.  A port     *)
(* feeds bytes to the line editor, folds CR LF into one Enter in its own   *)
(* way, and runs the line that is submitted.  The FreeRTOS consoles share  *)
(* one close flag (console_dispatch.c): `quit' sets it, each network       *)
(* session reads it after its command, the UART reads and clears it, and   *)
(* every new network session clears it.  The sessions on the other ports   *)
(* appear here as what they do to that flag.  The shell hands the line to  *)
(* ksh and waits for the marker that ksh prints before the next prompt.    *)
(***************************************************************************)
EXTENDS LineEditor

CONSTANTS
    Ports,        \* the kinds of console looked at
    Typed,        \* the characters typed
    MaxKeys,      \* bound: keys pressed in a session
    MaxOthers     \* bound: steps of other sessions

ASSUME ConsoleBounds ==
    /\ {MaxKeys, MaxOthers} \subseteq Nat
    /\ Ports \subseteq {"uart", "tcp", "ssh", "shell"} /\ Typed \subseteq Chars

VARIABLES
    port,    \* the port of this behaviour
    sess,    \* "closed", "open", "running" or "ended"
    ed,      \* the editor
    flag,    \* s_close_requested
    cr,      \* the last byte was a CR: previous_cr, last_was_cr, ignore_next_lf
    lf,      \* an LF is on its way behind a CR
    quits,   \* the line being run is quit, exit or reboot
    keys, others,
    sent,    \* lines submitted: history
    enters,  \* times Enter was pressed
    draft,   \* the line when the history was last entered
    kept,    \* every Tab has kept what was typed
    fair     \* a session has ended after its quit, and only then

convars == <<port, sess, ed, flag, cr, lf, quits, keys, others, sent, enters, draft, kept, fair>>

Network == {"tcp", "ssh"}
Style == [p \in {"uart", "tcp", "ssh", "shell"} |->
            CASE p \in {"uart", "tcp"} -> "bare" [] p = "ssh" -> "suffix" [] p = "shell" -> "whole"]

ConsoleInit ==
    /\ port \in Ports
    /\ sess = "closed" /\ ed = bvstk_line_editor_init
    /\ flag = FALSE /\ cr = FALSE /\ lf = FALSE /\ quits = FALSE
    /\ keys = 0 /\ others = 0
    /\ sent = <<>> /\ enters = 0 /\ draft = <<>> /\ kept = TRUE /\ fair = TRUE

flag_kept == flag  \* A mistake: a new session does not clear the flag
flag_at_start == IF port \in Network THEN FALSE ELSE flag

(* run_client_session, ssh_service_client, uart_console_task and           *)
(* run_interactive up to the first prompt.                                 *)
OpenSession ==
    /\ sess = "closed"
    /\ sess' = "open"
    /\ ed' = ShowPrompt(bvstk_line_editor_init)
    /\ flag' = flag_at_start
    /\ UNCHANGED <<port, cr, lf, quits, keys, others, sent, enters, draft, kept, fair>>

(* A key pressed while the editor waits for one.                           *)
Presses == sess = "open" /\ ~ lf /\ ed.esc = "none" /\ keys < MaxKeys

(* What the user was typing, for as long as the history is not entered.    *)
Edits(new) ==
    /\ ed' = new
    /\ cr' = FALSE
    /\ draft' = IF new.position < 0 THEN new.line ELSE draft
    /\ UNCHANGED <<port, sess, flag, lf, quits, others, sent, enters, fair>>

TypesChar(c) ==
    /\ Presses /\ keys' = keys + 1
    /\ Edits(editor_insert(ed, c))
    /\ UNCHANGED kept

TypesControl(b) ==
    /\ Presses /\ keys' = keys + 1
    /\ ~ (port = "shell" /\ b = "^D" /\ ed.line = <<>>)
    /\ Edits(Control(ed, b, Style[port]))
    /\ kept' = (kept /\ (b = "TAB" => IsPrefix(Before(ed), Before(ed'))))

TypesEscape(b) ==
    /\ sess = "open" /\ ed.esc # "none"
    /\ Edits(editor_handle_escape_byte(ed, b))
    /\ UNCHANGED <<keys, kept>>

Interrupted(e) == ShowPrompt([bvstk_line_editor_reset(e) EXCEPT !.term = Fresh])
TypesInterrupt ==
    /\ Presses /\ keys' = keys + 1
    /\ Edits(Interrupted(ed))
    /\ UNCHANGED kept

(* Ctrl-D on an empty line ends the shell (eof_on_empty), and no other.    *)
TypesEof ==
    /\ Presses /\ port = "shell" /\ ed.line = <<>>
    /\ sess' = "ended"
    /\ UNCHANGED <<port, ed, flag, cr, lf, quits, keys, others, sent, enters, draft, kept, fair>>

(* editor_submit: the line goes into the history and is run.               *)
Submits(isCr, lfLater) ==
    /\ sess' = "running"
    /\ ed' = [editor_add_history(ed) EXCEPT !.term = Fresh]
    /\ sent' = Append(sent, ed.line)
    /\ \E q \in BOOLEAN :
          /\ q => ed.line # <<>> /\ port # "shell"
          /\ quits' = q
          /\ flag' = (flag \/ q)
    /\ cr' = isCr
    /\ lf' = lfLater
    /\ UNCHANGED <<port, others, draft, kept, fair>>

(* Enter is sent as CR, as LF, or as CR and LF.  The TCP console drops an  *)
(* LF that is in the same read as its CR and forgets the CR at the end of  *)
(* the read; the others remember it.                                       *)
PressesEnter ==
    /\ Presses /\ keys' = keys + 1 /\ enters' = enters + 1
    /\ \E code \in {"cr", "lf", "crlf"} : Submits(code # "lf" /\ port # "tcp", code = "crlf")

LateLf ==
    /\ sess = "open" /\ lf
    /\ \/ cr /\ lf' = FALSE /\ cr' = FALSE
          /\ UNCHANGED <<port, sess, ed, flag, quits, keys, others, sent, enters, draft, kept, fair>>
       \/ ~ cr /\ Submits(FALSE, FALSE) /\ UNCHANGED <<keys, enters>>

(* The submit callback after the command: tcp_editor_submit,               *)
(* ssh_editor_submit, uart_editor_submit, or ksh's marker.                 *)
CommandEnds ==
    /\ sess = "running"
    /\ LET stops == port \in Network /\ flag
       IN  /\ sess' = IF stops THEN "ended" ELSE "open"
           /\ fair' = (fair /\ (port \in Network => stops = quits))
           /\ ed' = IF stops THEN bvstk_line_editor_reset(ed) ELSE ShowPrompt(bvstk_line_editor_reset(ed))
    /\ flag' = IF port = "uart" /\ ed.line # <<>> THEN FALSE ELSE flag
    /\ quits' = FALSE
    /\ draft' = <<>>
    /\ UNCHANGED <<port, cr, lf, keys, others, sent, enters, kept>>

(* The peer goes away, or the ended session is torn down; the thread       *)
(* waits for the next client.                                              *)
ClosesSession ==
    /\ sess = "ended" \/ (sess = "open" /\ port \in Network)
    /\ sess' = "closed"
    /\ ed' = bvstk_line_editor_init
    /\ cr' = FALSE /\ lf' = FALSE
    /\ sent' = <<>> /\ enters' = 0 /\ draft' = <<>>
    /\ UNCHANGED <<port, flag, quits, keys, others, kept, fair>>

(* Sessions on the other ports: `quit' sets the flag, the UART and a new   *)
(* session clear it.                                                       *)
OthersAct ==
    /\ others < MaxOthers /\ port # "shell"
    /\ others' = others + 1
    /\ flag' \in BOOLEAN
    /\ UNCHANGED <<port, sess, ed, cr, lf, quits, keys, sent, enters, draft, kept, fair>>

ConsoleNext ==
    \/ OpenSession \/ TypesInterrupt \/ TypesEof \/ PressesEnter \/ LateLf
    \/ CommandEnds \/ ClosesSession \/ OthersAct
    \/ \E c \in Typed : TypesChar(c)
    \/ \E b \in Controls : TypesControl(b)
    \/ \E b \in EscapeBytes : TypesEscape(b)

ConsoleSpec == ConsoleInit /\ [][ConsoleNext]_convars

-----------------------------------------------------------------------------
(* Properties.                                                             *)

(* After every byte the terminal shows the prompt and the line, with its   *)
(* cursor where the editor's is: the moves, the partial rewrites of insert *)
(* and the redraws agree with the buffer.                                  *)
OnScreen ==
    sess = "open" => /\ ed.term.row = <<Prompt>> \o ed.line
                     /\ ed.term.col = ed.cursor + 1

(* The history holds the last lines submitted, empty lines and immediate   *)
(* repeats left out; while it is browsed the line is the entry at its      *)
(* position, and the line being typed before is kept for the way back.     *)
(* (While a command runs the history has moved on and the position is      *)
(* still to be reset.)                                                     *)
Distinct(lines) ==
    LET kept_of[n \in 0..Len(lines)] ==
            IF n = 0 THEN <<>>
            ELSE IF lines[n] = <<>> \/ (kept_of[n - 1] # <<>> /\ Last(kept_of[n - 1]) = lines[n])
                 THEN kept_of[n - 1] ELSE Append(kept_of[n - 1], lines[n])
    IN  kept_of[Len(lines)]
Newest(lines) == SubSeq(lines, IF Len(lines) > HistoryMax THEN Len(lines) - HistoryMax + 1 ELSE 1, Len(lines))
HistoryIntact ==
    /\ ed.history = Newest(Distinct(sent))
    /\ sess = "open" /\ ed.position >= 0 => /\ ed.line = ed.history[ed.position + 1]
                                            /\ ed.scratch = draft

(* One press of Enter submits one line, whichever of CR, LF or CR LF the   *)
(* client sends for it.  (The TCP console takes an LF that comes in a read *)
(* of its own for one more, empty, line.)                                  *)
EnterOnce == port # "tcp" /\ ~ lf => Len(sent) = enters

(* What was typed before the cursor is still there after a Tab.  (On the   *)
(* serial and the TCP console the completion of a path replaces the whole  *)
(* of it by the bare name.)                                                *)
TabKeepsTyped == port \in {"ssh", "shell"} => kept

(* No line is lost or made up between the keys and the command: EnterOnce, *)
(* HistoryIntact and TabKeepsTyped.                                        *)
LinesIntact == EnterOnce /\ HistoryIntact /\ TabKeepsTyped

(* The console reference: quit and exit close the TCP or SSH session.  A   *)
(* session ends after its own quit, and the server ends it only then, as   *)
(* long as no other session touches the close flag they share.             *)
QuitEndsItsSession == others = 0 => fair

(* Not kept by the code: a TCP or SSH session in which quit or exit was    *)
(* given is closed.  The UART console, or a session that starts, may reset *)
(* the flag before the session looks at it.                                *)
QuitClosesSession ==
    [][sess = "running" /\ quits /\ port \in Network => sess' \in {"running", "ended"}]_convars
=============================================================================
