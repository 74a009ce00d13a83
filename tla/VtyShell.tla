------------------------------ MODULE VtyShell ------------------------------
(***************************************************************************)
(* The shells of sdplane on the lthread core: the vty server, one vty      *)
(* shell per telnet client, and the shell that runs the startup            *)
(* configuration.                                                          *)
(*                                                                         *)
(* All of them are lthreads of one core, which changes hands only where an *)
(* lthread sleeps: variable run is the lthread that has it.  A vty shell   *)
(* reads a buffer of keys, handles them one after the other (LineEditor)   *)
(* and executes each line that is ended.  It does this inside a read       *)
(* section of the rib, whose pointer rib_tlocal is one variable for all    *)
(* lthreads of the core; the rib manager runs on another core.             *)
(*                                                                         *)
(* Sockets and the pipe to a pager are known by descriptor numbers (file), *)
(* because shell_read_nowait_paging closes the number of its pipe at every *)
(* turn, whatever the number stands for by then.                           *)
(***************************************************************************)
EXTENDS LineEditor

CONSTANTS
  Slots,      \* client_info: the slots there may be, in order
  Client,     \* telnet clients
  Site,       \* the situations to explore, see below
  Effect,     \* what each command of Commands does
  ReadSize,   \* SHELL_READ_BUF_SIZE
  NoClient

ASSUME ReadAssumption == ReadSize \in Nat \ {0}
ASSUME EffectAssumption ==
  Effect \in [Commands -> {"ok", "fail", "sleep", "exit", "pager"}]

Startup == "startup"
Nobody == "nobody"
Unused == "unused"
Pipe == "pipe"
Exited == "exited"   \* the process has ended
Vty == Range(Slots)
Shell == Vty \cup {Startup}

\* Descriptor numbers: a socket for every slot and a pipe for every shell.
Fd == 1 .. 2 * Len(Slots) + 1
NoFd == 0

(***************************************************************************)
(* A situation: the keys each client may send at a time (inputs), how      *)
(* often any of them sends (sends), whether a client types ahead of the    *)
(* echo (ahead), how many slots there are (slots: VTY_CLIENT_MAX), which   *)
(* clients are there at the start and which connect, whether clients may   *)
(* hang up, how many ribs are published, and the startup configuration     *)
(* (NoConfig when it has been read before).                                *)
(***************************************************************************)
NoConfig == <<"none">>

VARIABLES
  site,      \* the situation
  sh,        \* the shells
  conn,      \* each client's connection
  backlog,   \* connections vty_server has not accepted yet
  file,      \* what each descriptor number stands for
  twin,      \* what copies of the process have inherited and read, too
  inp,       \* keys sent and not read yet, by client; Startup: the file
  hup,       \* whether the client has hung up
  run,       \* the lthread that has the core
  tlocal,    \* rib_tlocal: a rib, or 0 for NULL
  pub,       \* the rib that is published
  old,       \* the rib that is being replaced, or 0
  grace,     \* whether the lthread core still owes a quiescent state
  result,    \* of startup_config: "running", "completed" or "failed"
  left       \* how often clients may still send

fdVars == <<file, twin>>
clientVars == <<conn, backlog, hup, left>>
ribVars == <<pub, old, grace>>
vars == <<site, sh, clientVars, fdVars, inp, run, tlocal, ribVars, result>>

\* command_shell_create, and what vty_shell sets before its loop.
NewShell(c, n) ==
  [line |-> <<>>, cursor |-> 0, size |-> InitialSize, cut |-> <<>>,
   row |-> <<>>, col |-> 0, shown |-> FALSE, keymap |-> "normal",
   hist |-> NoHistory, subnego |-> <<>>, winsize |-> [col |-> 0, row |-> 0],
   client |-> c, fd |-> n, pc |-> "none", buf |-> <<>>, pasting |-> FALSE,
   pager |-> FALSE, paging |-> FALSE, child |-> "none", pipe |-> NoFd,
   over |-> FALSE, failed |-> FALSE, slept |-> FALSE, log |-> <<>>, ran |-> <<>>]

\* The situations begin with their clients connected and prompted.
Prompted(c, n) == Prompt([NewShell(c, n) EXCEPT !.pc = "loop"])
FdAtStart(s) == CHOOSE i \in DOMAIN Slots : Slots[i] = s

Init ==
  /\ site \in Site
  /\ sh = [s \in Shell |->
             IF s = Startup
             THEN [NewShell(NoClient, NoFd) EXCEPT
                     !.pc = IF site.config = NoConfig THEN "none" ELSE "loop"]
             ELSE IF s \in DOMAIN site.served
             THEN Prompted(site.served[s], FdAtStart(s))
             ELSE NewShell(NoClient, NoFd)]
  /\ conn = [c \in Client |-> IF c \in Range(site.served) THEN "served" ELSE "none"]
  /\ backlog = <<>>
  /\ file = [n \in Fd |->
               IF n \in DOMAIN Slots /\ Slots[n] \in DOMAIN site.served
               THEN site.served[Slots[n]] ELSE Unused]
  /\ twin = {}
  /\ inp = [x \in Client \cup {Startup} |->
              IF x = Startup /\ site.config # NoConfig THEN site.config ELSE <<>>]
  /\ hup = [c \in Client |-> FALSE]
  /\ run = Nobody
  /\ tlocal = 0
  /\ pub = 1 /\ old = 0 /\ grace = FALSE
  /\ result = IF site.config = NoConfig THEN "completed" ELSE "running"
  /\ left = site.sends

-----------------------------------------------------------------------------
(* The clients.                                                            *)

Connect(c) ==
  /\ c \in site.connect /\ conn[c] = "none"
  /\ conn' = [conn EXCEPT ![c] = "backlog"]
  /\ backlog' = Append(backlog, c)
  /\ UNCHANGED <<site, sh, hup, left, fdVars, inp, run, tlocal, ribVars, result>>

Send(c, keys) ==
  /\ conn[c] = "served" /\ ~hup[c] /\ left > 0
  /\ site.ahead \/ (run = Nobody /\ inp[c] = <<>>)
  /\ inp' = [inp EXCEPT ![c] = @ \o keys]
  /\ left' = left - 1
  /\ UNCHANGED <<site, sh, conn, backlog, hup, fdVars, run, tlocal, ribVars, result>>

HangUp(c) ==
  /\ site.hangup /\ conn[c] = "served" /\ ~hup[c]
  /\ hup' = [hup EXCEPT ![c] = TRUE]
  /\ UNCHANGED <<site, sh, conn, backlog, left, fdVars, inp, run, tlocal, ribVars, result>>

-----------------------------------------------------------------------------
(* The rib manager, on its own core: publish, wait, free.                  *)

Publish ==
  /\ old = 0 /\ pub < site.ribs
  /\ pub' = pub + 1 /\ old' = pub /\ grace' = TRUE
  /\ UNCHANGED <<site, sh, clientVars, fdVars, inp, run, tlocal, result>>

Free ==
  /\ old # 0 /\ ~grace
  /\ old' = 0
  /\ UNCHANGED <<site, sh, clientVars, fdVars, inp, run, tlocal, pub, grace, result>>

Alive(r) == r = pub \/ (r = old /\ old # 0)

-----------------------------------------------------------------------------
(* vty_server.                                                             *)

\* The first slot whose fd is -1.
FreeSlots == {i \in 1 .. site.slots : sh[Slots[i]].fd = NoFd}
FirstFree == CHOOSE i \in FreeSlots : \A j \in FreeSlots : i <= j

\* The number that accept and pipe return: the lowest unused one.  Other
\* descriptors of sdplane are left out, those that hold numbers in between too.
LowestFd ==
  CHOOSE n \in Fd : file[n] = Unused /\ \A m \in 1 .. n - 1 : file[m] # Unused

\* close for the numbers ns: what they stand for now is closed.
Close(ns) ==
  /\ file' = [n \in Fd |-> IF n \in ns THEN Unused ELSE file[n]]
  /\ conn' = [c \in Client |-> IF \E n \in ns \cap Fd : file[n] = c THEN "closed"
                               ELSE conn[c]]
  /\ UNCHANGED twin

\* One turn with a connection to accept and a slot for it.
Accept ==
  /\ run = Nobody /\ backlog # <<>> /\ FreeSlots # {}
  /\ sh' = [sh EXCEPT ![Slots[FirstFree]] =
              [NewShell(Head(backlog), LowestFd) EXCEPT !.pc = "start"]]
  /\ file' = [file EXCEPT ![LowestFd] = Head(backlog)] /\ UNCHANGED twin
  /\ conn' = [conn EXCEPT ![Head(backlog)] = "served"]
  /\ backlog' = Tail(backlog)
  /\ grace' = FALSE
  /\ UNCHANGED <<site, hup, left, inp, run, tlocal, pub, old, result>>

\* One turn with a connection but no slot: it is closed, and the turn ends
\* without the quiescent state.
Refuse ==
  /\ run = Nobody /\ backlog # <<>> /\ FreeSlots = {}
  /\ conn' = [conn EXCEPT ![Head(backlog)] = "refused"]
  /\ backlog' = Tail(backlog)
  /\ UNCHANGED <<site, sh, hup, left, fdVars, inp, run, tlocal, ribVars, result>>

\* One turn with nothing to accept.
ServerTurn ==
  /\ run = Nobody /\ backlog = <<>>
  /\ grace /\ grace' = FALSE
  /\ UNCHANGED <<site, sh, clientVars, fdVars, inp, run, tlocal, pub, old, result>>

\* vty_shell up to its loop.
VtyStart(s) ==
  /\ run = Nobody /\ sh[s].pc = "start"
  /\ sh' = [sh EXCEPT ![s] = Prompted(sh[s].client, sh[s].fd)]
  /\ UNCHANGED <<site, clientVars, fdVars, inp, run, tlocal, ribVars, result>>

-----------------------------------------------------------------------------
(* A turn of a vty shell: read section, read, handle, quiescent state.     *)

\* What a shell reads: the file of the configuration, or whatever its
\* descriptor stands for.  Reading a number that stands for nothing fails,
\* and a shell does not mind.
Source(s) == IF s = Startup THEN Startup
             ELSE IF sh[s].fd = NoFd THEN Unused ELSE file[sh[s].fd]
Keys(s) == IF Source(s) \in DOMAIN inp THEN inp[Source(s)] ELSE <<>>
Gone(s) == Source(s) \in Client /\ hup[Source(s)]
Take(s, n) == inp' = [x \in DOMAIN inp |-> IF x = Source(s) THEN Drop(inp[x], n) ELSE inp[x]]

\* Mutant: a loop that does not test whether the shell is closed.
EndTurnOpen(s, r, closed) ==
  /\ sh' = [sh EXCEPT ![s] = [r EXCEPT !.pc = "loop", !.over = FALSE,
                                       !.pasting = FALSE, !.slept = FALSE]]
  /\ Close(closed)
  /\ run' = Nobody
  /\ tlocal' = 0
  /\ grace' = FALSE
  /\ UNCHANGED <<site, backlog, hup, left, pub, old, result>>

\* The end of a turn that has closed some numbers.  A shell that is over
\* leaves its loop, closes its descriptor and gives its slot back before any
\* other lthread runs.
EndTurn(s, r, closed) ==
  /\ sh' = [sh EXCEPT ![s] =
              IF r.over THEN NewShell(NoClient, NoFd)
              ELSE [r EXCEPT !.pc = "loop", !.pasting = FALSE, !.slept = FALSE]]
  /\ Close(closed \cup IF r.over THEN {sh[s].fd} ELSE {})
  /\ run' = Nobody
  /\ tlocal' = 0
  /\ grace' = FALSE
  /\ UNCHANGED <<site, backlog, hup, left, pub, old, result>>

\* shell_read: the lines that begin in the buffer and are ended in it; two
\* of them are taken for pasted text.  A NUL does not begin a line.
LineEnd == {"^J", "^M"}

Ended(buf) ==
  {i \in DOMAIN buf :
     /\ i = 1 \/ buf[i - 1] \in LineEnd
     /\ buf[i] \notin LineEnd \cup {"^@"}
     /\ \E j \in DOMAIN buf : j > i /\ buf[j] \in LineEnd}

Reading(r, keys) ==
  LET b == Keep(keys, AtMost(ReadSize, Len(keys)))
  IN  [r EXCEPT !.pc = "input", !.buf = b,
                !.pasting = Cardinality(Ended(b)) >= 2]

\* Mutant: a read section that keeps a pointer it finds.
DereferencedOnce == IF tlocal = 0 THEN pub ELSE tlocal

\* The pointer a read section uses: that of the published rib.
Dereferenced == pub

VtyRead(s) ==
  /\ run = Nobody /\ sh[s].pc = "loop" /\ ~sh[s].paging
  /\ Keys(s) # <<>>
  /\ sh' = [sh EXCEPT ![s] = Reading(@, Keys(s))]
  /\ Take(s, AtMost(ReadSize, Len(Keys(s))))
  /\ run' = s
  /\ tlocal' = Dereferenced
  /\ UNCHANGED <<site, clientVars, fdVars, ribVars, result>>

\* read returns 0: shell_read_close, and the shell is over.
VtyEof(s) ==
  /\ run = Nobody /\ sh[s].pc = "loop" /\ ~sh[s].paging
  /\ Keys(s) = <<>> /\ Gone(s)
  /\ EndTurn(s, [sh[s] EXCEPT !.over = TRUE], {})
  /\ UNCHANGED inp

\* poll finds nothing to read, or read fails.
VtyIdle(s) ==
  /\ run = Nobody /\ sh[s].pc = "loop" /\ ~sh[s].paging
  /\ Keys(s) = <<>> /\ ~Gone(s)
  /\ grace \/ tlocal # 0
  /\ EndTurn(s, sh[s], {})
  /\ UNCHANGED inp

\* A key that edits.
InputKey(s) ==
  LET r == sh[s]
  IN  /\ run = s /\ r.pc = "input" /\ r.buf # <<>>
      /\ ~Executes(r, Head(r.buf))
      /\ sh' = [sh EXCEPT ![s] =
                  [ShellInput(r, Head(r.buf)) EXCEPT !.buf = Tail(@)]]
      /\ UNCHANGED <<site, clientVars, fdVars, inp, run, tlocal, ribVars, result>>

\* The buffer is used up, or a command has failed and the rest is dropped.
VtyDone(s) ==
  /\ run = s /\ sh[s].pc = "input" /\ sh[s].buf = <<>>
  /\ EndTurn(s, sh[s], {})
  /\ UNCHANGED inp

-----------------------------------------------------------------------------
(* The pager: a child process between the command and the terminal.        *)

\* Keys that reach the pager; "q" makes one that waits for keys quit.
Paged(r, keys) ==
  IF "q" \in Range(keys) /\ r.child = "long" THEN [r EXCEPT !.child = "short"]
  ELSE r

\* Whether shell_pager_bridge finds one of its two sides closed.
BridgeClosed(s, r) == r.child = "exited" \/ (Gone(s) /\ Keys(s) = <<>>)

\* shell_read_nowait_paging after waitpid: back to the command line, on the
\* row behind what the pager has written.
Reaped(r) ==
  Refresh(Prompt(Clear(Linefeed([r EXCEPT !.paging = FALSE, !.child = "none"]))))

\* The rest of it: keys go to the pager; once a side is closed waitpid waits
\* for the child and blocks the core until it has exited.
PagingPoll(s, r) ==
  LET p == Paged(r, Keys(s))
  IN  IF ~BridgeClosed(s, r) THEN p
      ELSE IF r.child = "exited" THEN Reaped(p)
      ELSE [p EXCEPT !.pc = "waitpid"]

\* A turn begins with close(pipefd[1]).  The first one, behind the command,
\* closes the pipe; the later ones close what has the number since.
VtyPaging(s) ==
  /\ run = Nobody /\ sh[s].pc = "loop" /\ sh[s].paging
  /\ LET r == PagingPoll(s, sh[s])
     IN  IF r.pc = "waitpid"
         THEN /\ sh' = [sh EXCEPT ![s] = r]
              /\ Close({sh[s].pipe})
              /\ run' = s /\ tlocal' = Dereferenced
              /\ UNCHANGED <<site, backlog, hup, left, ribVars, result>>
         ELSE /\ \/ r # sh[s] \/ Keys(s) # <<>> \/ file[sh[s].pipe] # Unused
                 \/ grace \/ tlocal # 0
              /\ EndTurn(s, r, {sh[s].pipe})
  /\ Take(s, Len(Keys(s)))

WaitPid(s) ==
  /\ run = s /\ sh[s].pc = "waitpid" /\ sh[s].child = "exited"
  /\ sh' = [sh EXCEPT ![s] = [Reaped(@) EXCEPT !.pc = "input"]]
  /\ UNCHANGED <<site, clientVars, fdVars, inp, run, tlocal, ribVars, result>>

\* A pager whose output fits the screen, or that was told to quit, exits.
ChildExit(s) ==
  /\ sh[s].child = "short"
  /\ sh' = [sh EXCEPT ![s].child = "exited"]
  /\ UNCHANGED <<site, clientVars, fdVars, inp, run, tlocal, ribVars, result>>

(***************************************************************************)
(* A child whose execlp fails returns from pager_start: it is a copy of    *)
(* sdplane that goes on with the shells and the server of the lthread core *)
(* and never exits.  It reads the sockets it has inherited (twin) and      *)
(* accepts connections.                                                    *)
(***************************************************************************)
CopyReads(c) ==
  /\ c \in twin /\ inp[c] # <<>>
  /\ inp' = [inp EXCEPT ![c] = Drop(@, AtMost(ReadSize, Len(@)))]
  /\ UNCHANGED <<site, sh, clientVars, fdVars, run, tlocal, ribVars, result>>

CopyAccepts ==
  /\ twin # {} /\ backlog # <<>>
  /\ conn' = [conn EXCEPT ![Head(backlog)] = "copied"]
  /\ backlog' = Tail(backlog)
  /\ UNCHANGED <<site, sh, hup, left, fdVars, inp, run, tlocal, ribVars, result>>

-----------------------------------------------------------------------------
(* command_shell_execute.                                                  *)

\* Everything from the first # or ! on is a comment.
Uncommented(r) ==
  LET c == {i \in DOMAIN r.line : r.line[i] \in {"#", "!"}}
      n == IF c = {} THEN Len(r.line)
           ELSE (CHOOSE i \in c : \A j \in c : i <= j) - 1
  IN  [r EXCEPT !.line = Keep(@, n), !.cursor = AtMost(@, n)]

\* A new prompt for the next line.
NextLine(r) == Refresh(Prompt(Clear(r)))

\* The line as it is executed.
Submitted(s) ==
  LET r == [sh[s] EXCEPT !.buf = Tail(@)] IN Uncommented(Linefeed(r))

AtEnter(s) ==
  /\ run = s /\ sh[s].pc = "input" /\ sh[s].buf # <<>>
  /\ Executes(sh[s], Head(sh[s].buf))

\* An empty line, or nothing but a comment.
EnterBlank(s) ==
  /\ AtEnter(s) /\ Submitted(s).line = <<>>
  /\ sh' = [sh EXCEPT ![s] = IF @.over THEN Submitted(s) ELSE NextLine(Submitted(s))]
  /\ UNCHANGED <<site, clientVars, fdVars, inp, run, tlocal, ribVars, result>>

EffectOf(t) == IF Lookup(t) = NotFound THEN "fail" ELSE Effect[Lookup(t)]

\* The function of the command; sleep gives the core away before it returns.
Executed(r) ==
  LET e == EffectOf(r.line)
  IN  [r EXCEPT !.pc = IF e = "sleep" THEN "asleep" ELSE "returned",
                !.over = @ \/ e = "exit",
                !.pager = @ \/ e = "pager"]

\* The command without a pager: none is wanted, or it could not be started.
EnterPlain(s) ==
  /\ AtEnter(s) /\ Submitted(s).line # <<>>
  /\ LET r == Executed([Format2(Submitted(s)) EXCEPT !.paging = FALSE])
     IN  /\ sh' = [sh EXCEPT ![s] = r]
         /\ run' = IF r.pc = "asleep" THEN Nobody ELSE s
  /\ UNCHANGED <<site, clientVars, fdVars, inp, tlocal, ribVars, result>>

\* pager_start hands over the keys that wait until its source has no more.
\* A file, and the socket of a client that has hung up, stay readable forever.
NeverDrained(s) == s = Startup \/ Gone(s)

\* The command with a pager, whose program starts or does not.
EnterPaged(s) ==
  /\ AtEnter(s) /\ Submitted(s).line # <<>>
  /\ sh[s].pager /\ ~sh[s].pasting
  /\ \E child \in {"short", "long", "copy"} :
       LET r == Paged([Format2(Submitted(s)) EXCEPT
                         !.paging = TRUE, !.child = child, !.pipe = LowestFd], Keys(s))
           x == IF NeverDrained(s) THEN [r EXCEPT !.pc = "spin"] ELSE Executed(r)
       IN  /\ sh' = [sh EXCEPT ![s] = x]
           /\ run' = IF x.pc = "asleep" THEN Nobody ELSE s
           /\ twin' = IF child = "copy"
                      THEN twin \cup Range(file) \cup {Startup} ELSE twin
  /\ file' = [file EXCEPT ![LowestFd] = Pipe]
  /\ Take(s, Len(Keys(s)))
  /\ UNCHANGED <<site, clientVars, tlocal, ribVars, result>>

\* lthread_sleep is over.
Wake(s) ==
  /\ run = Nobody /\ sh[s].pc = "asleep"
  /\ sh' = [sh EXCEPT ![s].pc = "returned", ![s].slept = TRUE]
  /\ run' = s
  /\ UNCHANGED <<site, clientVars, fdVars, inp, tlocal, ribVars, result>>

\* Mutant: a failed command does not stop the buffer.
RecordedOnly(s) ==
  LET r == sh[s]
      bad == EffectOf(r.line) = "fail"
      again == r.log # <<>> /\ Last(r.log) = r.line
  IN  [Linefeed(r) EXCEPT
         !.pc = "input",
         !.failed = bad,
         !.hist = HistoryAdd(@, r.line),
         !.log = IF again THEN @ ELSE Append(@, r.line),
         !.ran = IF s = Startup THEN Append(@, [line |-> r.line, bad |-> bad]) ELSE @]

\* The command has returned: a failure drops the rest of the buffer.
Recorded(s) ==
  LET r == sh[s]
      bad == EffectOf(r.line) = "fail"
      again == r.log # <<>> /\ Last(r.log) = r.line
  IN  [Linefeed(r) EXCEPT
         !.pc = "input",
         !.failed = bad,
         !.buf = IF bad THEN <<>> ELSE @,
         !.hist = HistoryAdd(@, r.line),
         !.log = IF again THEN @ ELSE Append(@, r.line),
         !.ran = IF s = Startup THEN Append(@, [line |-> r.line, bad |-> bad]) ELSE @]

\* What follows the command: history, the first turn of the pager, prompt.
AfterCommand(s) ==
  LET r == Recorded(s)
  IN  /\ run = s /\ sh[s].pc = "returned"
      /\ IF r.paging
         THEN /\ sh' = [sh EXCEPT ![s] = PagingPoll(s, r)]
              /\ Close({r.pipe})
              /\ Take(s, Len(Keys(s)))
         ELSE /\ sh' = [sh EXCEPT ![s] = IF r.over THEN r ELSE NextLine(r)]
              /\ UNCHANGED <<fdVars, conn, inp>>
      /\ UNCHANGED <<site, backlog, hup, left, run, tlocal, ribVars, result>>

-----------------------------------------------------------------------------
(* startup_config: the same shell reading a file, outside any read section.*)

StartupRead ==
  /\ run = Nobody /\ sh[Startup].pc = "loop" /\ Keys(Startup) # <<>>
  /\ sh' = [sh EXCEPT ![Startup] = Reading(@, Keys(Startup))]
  /\ Take(Startup, AtMost(ReadSize, Len(Keys(Startup))))
  /\ run' = Startup
  /\ UNCHANGED <<site, clientVars, fdVars, tlocal, ribVars, result>>

\* A failed command ends the configuration and the process with it.
StartupDone ==
  /\ run = Startup /\ sh[Startup].pc = "input" /\ sh[Startup].buf = <<>>
  /\ sh' = [sh EXCEPT ![Startup].pc = IF sh[Startup].over THEN "none" ELSE "loop",
                      ![Startup].pasting = FALSE]
  /\ result' = IF sh[Startup].failed THEN "failed"
               ELSE IF sh[Startup].over THEN "completed" ELSE result
  /\ run' = IF sh[Startup].failed THEN Exited ELSE Nobody
  /\ UNCHANGED <<site, clientVars, fdVars, inp, tlocal, ribVars>>

StartupEof ==
  /\ run = Nobody /\ sh[Startup].pc = "loop" /\ Keys(Startup) = <<>>
  /\ sh' = [sh EXCEPT ![Startup].pc = "none", ![Startup].over = TRUE]
  /\ result' = "completed"
  /\ UNCHANGED <<site, clientVars, fdVars, inp, run, tlocal, ribVars>>

-----------------------------------------------------------------------------

ServerAny == Accept \/ Refuse \/ ServerTurn

\* What gives the core to a vty shell, and what that shell then does.
VtyTurn(s) == \/ VtyStart(s) \/ VtyRead(s) \/ VtyEof(s) \/ VtyIdle(s)
              \/ VtyPaging(s) \/ Wake(s)
Running(s) == \/ InputKey(s) \/ VtyDone(s) \/ EnterBlank(s) \/ EnterPlain(s)
              \/ EnterPaged(s) \/ AfterCommand(s) \/ WaitPid(s)

StartupTurn == StartupRead \/ StartupEof \/ Wake(Startup)
StartupRunning == \/ InputKey(Startup) \/ StartupDone \/ EnterBlank(Startup)
                  \/ EnterPlain(Startup) \/ EnterPaged(Startup)
                  \/ AfterCommand(Startup)

Next ==
  \/ \E c \in Client : Connect(c) \/ HangUp(c) \/ CopyReads(c)
  \/ CopyAccepts
  \/ \E c \in Client, keys \in site.inputs : Send(c, keys)
  \/ Publish \/ Free
  \/ ServerAny
  \/ \E s \in Vty : VtyTurn(s) \/ Running(s) \/ ChildExit(s)
  \/ StartupTurn \/ StartupRunning

\* The lthread that has the core gives it back; one that waits for a pager
\* without its client, or for a file to have no more, does not.
Yields(s) ==
  /\ run = s /\ sh[s].pc \notin {"waitpid", "spin"}
  /\ run' \in {Nobody, Exited}

(***************************************************************************)
(* The scheduler of the lthread core gives every lthread whose sleep is    *)
(* over its turn, and an lthread that has the core goes on until it        *)
(* yields: its buffer is finite.  A pager that has nothing to wait for     *)
(* exits; a copy of sdplane in its place does not.                         *)
(***************************************************************************)
Spec ==
  /\ Init /\ [][Next]_vars
  /\ SF_vars(ServerAny) /\ SF_vars(StartupTurn)
  /\ \A s \in Vty : SF_vars(VtyTurn(s))
  /\ WF_run(\E s \in Shell : Yields(s))
  /\ WF_vars(\E s \in Vty : WaitPid(s) \/ ChildExit(s))

-----------------------------------------------------------------------------
(* Properties.                                                             *)

\* The terminal of the shell's client is that shell's alone.
Alone(s) ==
  /\ Source(s) = sh[s].client
  /\ \A t \in Vty \ {s} : sh[t].fd # sh[s].fd
  /\ sh[s].client \notin twin

Editing(s) ==
  /\ Alone(s)
  /\ sh[s].pc \in {"loop", "input"} /\ ~sh[s].over
  /\ sh[s].shown /\ ~sh[s].paging

(***************************************************************************)
(* Whatever keys were pressed, the terminal's row is the prompt, the       *)
(* command line and blanks, and its cursor is where the editor's is.  The  *)
(* editor only ever sends differences (shell_insert, shell_delete_string,  *)
(* shell_format of shell.c), so a wrong count stays wrong.                 *)
(***************************************************************************)
ScreenShowsLine ==
  \A s \in Vty : Editing(s) =>
    LET r == sh[s]
    IN  /\ r.col = r.cursor
        /\ r.cursor \in 0 .. Len(r.line)
        /\ Len(r.row) >= Len(r.line)
        /\ \A i \in DOMAIN r.row :
             r.row[i] = (IF i <= Len(r.line) THEN r.line[i] ELSE Blank)

(***************************************************************************)
(* The ring of the history holds exactly the last HISTORY_SIZE - 1 lines   *)
(* that were executed, in order and without immediate repetitions, however *)
(* the user browsed in between (command_history_add asserts that the slot  *)
(* it writes is empty).                                                    *)
(***************************************************************************)
HistoryKept ==
  \A s \in Shell :
    LET h == sh[s].hist
        log == sh[s].log
        n == AtMost(Len(log), HistorySize - 1)
        at(k) == (h.last + HistorySize - k) % HistorySize
    IN  \A k \in 0 .. HistorySize - 1 :
          h.array[at(k)] = IF k < n THEN log[Len(log) - k] ELSE NoEntry

\* The commands of a configuration: its ended lines, without comments,
\* without those that are empty, and squeezed.
Lines(config) ==
  LET e == InOrder({i \in DOMAIN config : config[i] = "^J"})
      begin(k) == IF k = 1 THEN 1 ELSE e[k - 1] + 1
      line(k) == Uncommented([line |-> SubSeq(config, begin(k), e[k] - 1), cursor |-> 0]).line
      full == SelectSeq([k \in DOMAIN e |-> line(k)], LAMBDA t : t # <<>>)
  IN  [k \in DOMAIN full |-> Squeezed(full[k])]

(***************************************************************************)
(* startup_config executes the lines of the file in order, whatever the    *)
(* boundaries of its reads, up to the first one that fails, which ends     *)
(* sdplane, or the first "exit".  Behind an "exit" no command of the file  *)
(* has an effect: command_shell_execute returns without shell_clear, so    *)
(* what the same read still holds is appended to "exit", which is executed *)
(* again or, for an unknown command now, fails and ends sdplane.  sdplane  *)
(* goes on only when every command up to there has succeeded               *)
(* (startup_config.c, shell_read, command_shell_execute).                  *)
(***************************************************************************)
StartupStops ==
  LET ran == sh[Startup].ran
      lines == Lines(site.config)
      exits == {i \in DOMAIN ran : EffectOf(ran[i].line) = "exit"}
      before == {i \in DOMAIN ran : \A x \in exits : i <= x}
  IN  site.config # NoConfig =>
        /\ Cardinality(before) <= Len(lines)
        /\ \A i \in before : ran[i].line = lines[i]
        /\ \A i \in DOMAIN ran \ before : i \in exits \/ ran[i].bad
        /\ \A i \in DOMAIN ran : ran[i].bad => i = Len(ran)
        /\ result = "completed" => /\ \A i \in DOMAIN ran : ~ran[i].bad
                                   /\ exits # {} \/ Len(ran) = Len(lines)
        /\ result = "failed" => ran # <<>> /\ Last(ran).bad

(***************************************************************************)
(* While a vty shell has the core, and has not slept in this turn,         *)
(* rib_tlocal is a rib that is not freed, although other shells may be     *)
(* asleep inside their own read sections and share the pointer             *)
(* (vty_shell.c).                                                          *)
(***************************************************************************)
RibHeld ==
  \A s \in Vty : (run = s /\ ~sh[s].slept) => tlocal # 0 /\ Alive(tlocal)

\* The core is lost to a pager that waits for a client who is gone, or for
\* the configuration to have no more; or the process has ended.
Lost ==
  \/ result = "failed"
  \/ \E s \in Shell : run = s /\ sh[s].pc \in {"waitpid", "spin"} /\ NeverDrained(s)

\* The shell's socket was closed under it by another shell's pager.
CutOff(s) == Source(s) # sh[s].client

\* What somebody waits for: a connection to be taken from the backlog, the
\* slot of a client that has hung up, the end of the startup configuration.
Awaited ==
  \/ backlog # <<>>
  \/ \E s \in Vty : sh[s].client # NoClient /\ hup[sh[s].client] /\ ~CutOff(s)
  \/ result = "running"

(***************************************************************************)
(* Every connection is accepted or refused, the slot of a client that has  *)
(* hung up is given back, and the startup configuration ends: as clients   *)
(* come and go once, at some time nothing is waited for.  There are two    *)
(* exceptions: a pager whose source stays readable keeps the core, and a   *)
(* shell whose socket the repeated close of a pager has taken keeps its    *)
(* slot (vty_server.c, vty_shell.c, startup_config.c, pager_start,         *)
(* shell_read_nowait_paging).                                              *)
(***************************************************************************)
Served == Awaited ~> (~Awaited \/ Lost)

=============================================================================
