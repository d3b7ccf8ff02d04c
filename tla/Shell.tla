------------------------------- MODULE Shell --------------------------------
(***************************************************************************)
(* The program sh: it reads a line from the console, runs the command, and *)
(* reads the next one.  "run" spawns a program and waits for it; that      *)
(* program is fact here, which reads a line of its own from the same queue *)
(* of keys.  Keys arrive whenever somebody types.                          *)
(*                                                                         *)
(* A key is a word, or the keys "enter" and "backspace"; a command is its  *)
(* first word, and the second one its path.                                *)
(***************************************************************************)
EXTENDS Console

CONSTANT Script   \* what somebody may type: sequences of keys

VARIABLES
  tape,     \* what is typed in this behaviour
  sh,       \* the next step of the shell
  fact,     \* the program it runs: "none", "read" or its exit code
  line,     \* the line being read
  told      \* history: who read a line, and the line

shellVars == <<tape, sh, fact, line, told>>
shVars == <<consoleVars, shellVars>>

File == {"app"}   \* the paths that exist

ShellInit ==
  /\ ConsoleInit
  /\ tape \in Script
  /\ sh = "prompt" /\ fact = "none"
  /\ line = <<>> /\ told = <<>>

keyboard ==
  /\ typed < Len(tape)
  /\ type
  /\ UNCHANGED shellVars

serial_handler == receive /\ UNCHANGED shellVars

(* What read_line does with a key it got.  A line is handed to the program *)
(* that reads it, which takes its step next.                               *)
edit_raw(key) == IF key = "backspace" THEN line ELSE Append(line, key)
edit(key) ==
  IF key # "backspace" THEN Append(line, key)
  ELSE IF line = <<>> THEN line
  ELSE SubSeq(line, 1, Len(line) - 1)

(* One turn of the loop of read_line in which sys_read returns a key. *)
read_line(who, then) ==
  /\ try_pop_key
  /\ LET key == tape[Head(INPUT_BUF)]
     IN IF key = "enter"
        THEN /\ told' = Append(told, <<who, line>>)
             /\ then
             /\ UNCHANGED <<tape, line>>
        ELSE /\ line' = edit(key)
             /\ UNCHANGED <<tape, sh, fact, told>>

prompt ==
  /\ sh = "prompt"
  /\ sh' = "read" /\ line' = <<>>
  /\ UNCHANGED <<consoleVars, tape, fact, told>>

read == sh = "read" /\ read_line("sh", sh' = "command" /\ UNCHANGED fact)

Op == IF line = <<>> THEN "" ELSE line[1]
HasPath == Len(line) > 1

(* The match of main, for the commands that print and go on, open files,   *)
(* spawn and leave.  A path that does not exist makes the kernel panic, in *)
(* the open of cat and in spawn; a missing path of run makes sh panic,     *)
(* which exits.                                                            *)
NextStep ==
  CASE Op = "exit" -> "done"
    [] Op = "run" /\ ~HasPath -> "done"
    [] Op = "run" /\ HasPath -> IF line[2] \in File THEN "wait" ELSE "halted"
    [] Op = "cat" -> IF HasPath /\ line[2] \in File THEN "prompt" ELSE "halted"
    [] OTHER -> "prompt"

command ==
  /\ sh = "command"
  /\ sh' = NextStep
  /\ fact' = IF NextStep = "wait" THEN "start" ELSE fact
  /\ UNCHANGED <<consoleVars, tape, line, told>>

(* sys_wait_pid returns when the program has exited. *)
wait_pid ==
  /\ sh = "wait" /\ fact \in {"0", "1"}
  /\ sh' = "prompt" /\ fact' = "none"
  /\ UNCHANGED <<consoleVars, tape, line, told>>

(* fact reads a number; one that does not parse is a panic. *)
fact_start ==
  /\ fact = "start"
  /\ fact' = "read" /\ line' = <<>>
  /\ UNCHANGED <<consoleVars, tape, sh, told>>

fact_read == fact = "read" /\ read_line("fact", fact' = "line" /\ UNCHANGED sh)

fact_exit ==
  /\ fact = "line"
  /\ fact' = IF line = <<"7">> THEN "0" ELSE "1"
  /\ UNCHANGED <<consoleVars, tape, sh, line, told>>

Interactive == prompt \/ read \/ command \/ wait_pid
Program == fact_start \/ fact_read \/ fact_exit
Halted == sh = "halted"

ShellNext == ~Halted /\ (keyboard \/ serial_handler \/ Interactive \/ Program)

-----------------------------------------------------------------------------
(* What editing should leave of a sequence of keys: a word stays when no   *)
(* backspace that follows it takes it away, which one does when it is the  *)
(* nearest not yet taken.                                                  *)
Erased(keys) ==
  LET open(i, j) == Cardinality({k \in i + 1 .. j : keys[k] # "backspace"})
                      < Cardinality({k \in i + 1 .. j : keys[k] = "backspace"})
  IN {i \in DOMAIN keys : \E j \in i .. Len(keys) : open(i, j)}
Kept(keys) == {i \in DOMAIN keys : keys[i] # "backspace"} \ Erased(keys)
Edited(keys) ==
  [n \in 1 .. Cardinality(Kept(keys)) |->
     keys[CHOOSE i \in Kept(keys) : Cardinality({k \in Kept(keys) : k < i}) = n - 1]]

Keys == [n \in 1 .. Len(popped) |-> tape[popped[n]]]
Ends == {n \in DOMAIN Keys : Keys[n] = "enter"}
Since(n) == SubSeq(Keys, 1 + LET before == {m \in Ends : m < n}
                            IN IF before = {} THEN 0 ELSE CHOOSE m \in before :
                                 \A k \in before : k <= m, n - 1)

Runs(l) == Len(l) > 1 /\ l[1] = "run" /\ l[2] \in File

(* The lines that sh and the program it runs read are, in order, what the  *)
(* keys they got spell, with the backspaces carried out.  A line belongs   *)
(* to the program just when the line before it ran the program: neither    *)
(* takes keys meant for the other, whenever they were typed.               *)
LinesFaithful ==
  /\ [n \in DOMAIN told |-> told[n][2]]
       = [n \in 1 .. Cardinality(Ends) |->
            Edited(Since(CHOOSE e \in Ends : Cardinality({m \in Ends : m < e}) = n - 1))]
  /\ \A n \in DOMAIN told :
       (told[n][1] = "fact") <=>
         (n > 1 /\ told[n - 1][1] = "sh" /\ Runs(told[n - 1][2]))

(* Everything typed and not refused is read, unless the shell has left or  *)
(* the kernel has panicked.                                                *)
ShellReads == sh \in {"done", "halted"} \/ (typed = Len(tape) /\ fifo = <<>> /\ INPUT_BUF = <<>>)
=============================================================================
