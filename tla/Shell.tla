------------------------------- MODULE Shell -------------------------------
(***************************************************************************)
(* How a command line becomes a request to the kernel: the shell           *)
(* (programs/console.cpp) resolves all that follows the command as one     *)
(* path and hands it to the program, which takes it apart again and        *)
(* resolves its paths a second time (programs/rm.cpp, mv.cpp, write.cpp    *)
(* and the like).  A text is a sequence of tokens: a separator, a space,   *)
(* the words "." and "..", or a name.                                      *)
(***************************************************************************)
EXTENDS Naturals, FiniteSets, Sequences, SequencesExt

CONSTANTS Lines,        \* the lines a user may enter
          MaxSegments,  \* names a path may have (16 in the code)
          Width         \* tokens a name may have (31 characters in the code)

ASSUME ShellAssumption == MaxSegments \in Nat \ {0} /\ Width \in Nat \ {0}

VARIABLES
  phase,    \* "prompt", "entered", "running" or "asked"
  cwd,      \* the names of the shell's current directory
  line,     \* the line entered
  started,  \* the program started, its argument and the directory it is given
  request   \* what the program asked of the kernel

vars == <<phase, cwd, line, started, request>>

NoRequest == [call |-> "none", paths |-> <<>>, text |-> <<>>]
NotStarted == [program |-> "none", argument |-> <<>>, cwd |-> <<>>]

----------------------------------------------------------------------------
(* Words: spaces are skipped before a word, and a word ends at a space.    *)
DropSpaces(text) ==
  LET n == SelectInSeq(text, LAMBDA t : t # " ")
  IN IF n = 0 THEN <<>> ELSE SubSeq(text, n, Len(text))
Trim(text) == SubSeq(text, 1, SelectLastInSeq(text, LAMBDA t : t # " "))
FirstWord(text) ==
  LET n == SelectInSeq(text, LAMBDA t : t = " ")
  IN IF n = 0 THEN text ELSE SubSeq(text, 1, n - 1)
AfterWord(text) == DropSpaces(SubSeq(text, Len(FirstWord(text)) + 1, Len(text)))

(* A path in pieces: at each separator, and where a name has filled its    *)
(* buffer.                                                                 *)
Segments(text) ==
  LET Put(found, t) ==
        IF t = "/" THEN Append(found, <<>>)
        ELSE IF Len(Last(found)) = Width THEN Append(found, <<t>>)
        ELSE [found EXCEPT ![Len(found)] = Append(@, t)]
  IN FoldLeft(Put, << <<>> >>, text)

(* One more piece; no piece is looked at once the names are all used.      *)
Push(path, segment) ==
  IF Len(path) = MaxSegments \/ segment \in {<<>>, <<".">>} THEN path
  ELSE IF segment = <<"..">> THEN SubSeq(path, 1, Len(path) - 1)
  ELSE Append(path, segment)
resolve_path(raw) == FoldLeft(Push, <<>>, Segments(raw))

Spell(path) ==
  IF path = <<>> THEN <<"/">> ELSE FlattenSeq([n \in DOMAIN path |-> <<"/">> \o path[n]])
DirectoryText(path) == IF path = <<>> THEN <<"/">> ELSE Spell(path) \o <<"/">>

IsAbsolute(text) == text # <<>> /\ Head(text) = "/"

(* Mutant: a relative path is taken from the root.                         *)
ResolveFromRoot(directory, text) == resolve_path(<<"/">> \o text)
(* A path from a directory: the shell's resolve_from_cwd and the           *)
(* programs' resolve_path.                                                 *)
ResolveFrom(directory, text) ==
  resolve_path(IF IsAbsolute(text) THEN text ELSE DirectoryText(directory) \o text)

----------------------------------------------------------------------------
Init == /\ phase = "prompt"
        /\ cwd = <<>>
        /\ line = <<>>
        /\ started = NotStarted
        /\ request = NoRequest

Enter == /\ phase = "prompt"
         /\ line' \in Lines
         /\ phase' = "entered"
         /\ UNCHANGED <<cwd, started, request>>

Command == FirstWord(Trim(DropSpaces(line)))
Argument == AfterWord(Trim(DropSpaces(line)))

Prompt == /\ phase' = "prompt"
          /\ line' = <<>>
          /\ started' = NotStarted
          /\ request' = NoRequest

(* help, clear, an empty line, and run without a program.                  *)
NothingStarted == /\ \/ Command \in {<<>>, <<"help">>, <<"clear">>}
                     \/ Command = <<"run">> /\ Argument = <<>>
                  /\ Prompt
                  /\ UNCHANGED cwd

(* The kernel is asked whether the directory is there (external).          *)
cmd_cd == /\ Command = <<"cd">>
          /\ cwd' \in {cwd, IF Argument = <<>> THEN <<>> ELSE ResolveFrom(cwd, Argument)}
          /\ Prompt

(* A program by its name or with run, by its file, which the model writes  *)
(* as its name.                                                            *)
Start(program, argument) ==
  /\ started' = [program |-> program, argument |-> Spell(ResolveFrom(cwd, argument)), cwd |-> cwd]
  /\ phase' = "running"
  /\ UNCHANGED <<cwd, line, request>>
cmd_run == Command = <<"run">> /\ Argument # <<>> /\ Start(FirstWord(Argument), AfterWord(Argument))
run_named_program == Command \notin {<<>>, <<"help">>, <<"clear">>, <<"cd">>, <<"run">>} /\ Start(Command, Argument)

parse_and_exec == /\ phase = "entered"
                  /\ NothingStarted \/ cmd_cd \/ cmd_run \/ run_named_program

----------------------------------------------------------------------------
(* The programs.                                                           *)
Ask(call, paths, text) == /\ request' = [call |-> call, paths |-> paths, text |-> text]
                          /\ phase' = "asked"
                          /\ UNCHANGED <<cwd, line, started>>
Complain == phase' = "asked" /\ UNCHANGED <<cwd, line, started, request>>

Given(text) == ResolveFrom(started.cwd, text)

(* The whole argument is one path.                                         *)
OnePath(program) == /\ started.program = <<program>>
                    /\ IF started.argument = <<>> THEN Complain
                       ELSE Ask(program, <<Given(started.argument)>>, <<>>)
rm    == OnePath("rm")
mkdir == OnePath("mkdir")
touch == OnePath("touch")

(* The first word is a path, and the rest another one, or text.            *)
split_two_args(text) == << FirstWord(DropSpaces(text)), AfterWord(DropSpaces(text)) >>

mv == LET parts == split_two_args(started.argument)
      IN  /\ started.program = <<"mv">>
          /\ IF <<>> \in {parts[1], parts[2]} THEN Complain
             ELSE Ask("mv", <<Given(parts[1]), Given(parts[2])>>, <<>>)
write == LET parts == split_two_args(started.argument)
         IN  /\ started.program = <<"write">>
             /\ IF <<>> \in {parts[1], parts[2]} THEN Complain
                ELSE Ask("write", <<Given(parts[1])>>, parts[2])

(* The argument goes to the kernel as it is.                               *)
AsGiven(program) == started.program = <<program>> /\ Ask(program, <<>>, started.argument)
cat == AsGiven("cat")
ls  == AsGiven("ls")

ProgramRuns == phase = "running" /\ (rm \/ mkdir \/ touch \/ mv \/ write \/ cat \/ ls)

ProgramEnds == phase = "asked" /\ Prompt /\ UNCHANGED cwd

Next == Enter \/ parse_and_exec \/ ProgramRuns \/ ProgramEnds

Spec == Init /\ [][Next]_vars

----------------------------------------------------------------------------
(* What a text names, said without the code: the names of the directory    *)
(* it starts in and its own, less those a later ".." takes back.           *)
Plain(text) == SelectSeq(FoldLeft(LAMBDA found, t : IF t = "/" THEN Append(found, <<>>)
                                   ELSE [found EXCEPT ![Len(found)] = Append(@, t)], << <<>> >>, text),
                         LAMBDA s : s \notin {<<>>, <<".">>})
Count(s, first, last, up) == Cardinality({n \in first .. last : (s[n] = <<"..">>) = up})
Meant(text) ==
  LET s == (IF IsAbsolute(text) THEN <<>> ELSE cwd) \o Plain(text)
      kept == {n \in DOMAIN s : /\ s[n] # <<"..">>
                                /\ \A m \in n .. Len(s) :
                                     Count(s, n + 1, m, TRUE) <= Count(s, n + 1, m, FALSE)}
      Order == SetToSortSeq(kept, <)
  IN [n \in DOMAIN Order |-> s[Order[n]]]

(* Within the code's limits, taken over the whole argument, which is       *)
(* resolved as one path, and in no directory with a space in its name,     *)
(* where the programs would take the word to end.                          *)
Fits(text) == /\ Len(cwd) + Len(Plain(text)) <= MaxSegments
              /\ \A n \in DOMAIN Plain(text) : Len(Plain(text)[n]) <= Width
              /\ \A n \in DOMAIN cwd : ~Contains(cwd[n], " ")

Typed == IF Command = <<"run">> THEN AfterWord(Argument) ELSE Argument
First == FirstWord(Typed)
Second == AfterWord(Typed)

(* Within the limits, what a program asks of the kernel is what the line   *)
(* says: the paths it names are the ones the words name one by one, though *)
(* the shell resolves them joined together and the program resolves them   *)
(* again; text to write arrives as typed unless it has a separator; and a  *)
(* program complains of a missing word only when one is missing, or the    *)
(* second names nothing of its own or has a ".." that takes the first away.*)
RequestAsTyped ==
  phase = "asked" /\ Typed # <<>> /\ Fits(Typed) =>
    \/ request.call \in {"rm", "mkdir", "touch"} /\ request.paths = <<Meant(Typed)>>
    \/ request.call = "mv" /\ request.paths = <<Meant(First), Meant(Second)>>
    \/ /\ request.call = "write" /\ request.paths = <<Meant(First)>>
       /\ Contains(Second, "/") \/ request.text = Second
    \/ request.call \in {"cat", "ls"} /\ request.text = Spell(Meant(Typed))
    \/ request = NoRequest /\ (Plain(Second) = <<>> \/ Contains(Second, ".."))

(* A program started without an argument says that its path is missing     *)
(* (programs/rm.cpp:80-83) and asks nothing of the kernel.                 *)
NothingWithoutPath ==
  phase = "asked" /\ Typed = <<>> /\ started.program \in {<<"rm">>, <<"mkdir">>, <<"touch">>}
    => request = NoRequest
=============================================================================
