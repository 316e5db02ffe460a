---------------------------- MODULE ProblemFiles ----------------------------
(***************************************************************************)
(* How a problem gets into the program: the solver parses its file         *)
(* (core/Dimacs.h), then the constructor of the controller reads it again  *)
(* with a reader of its own (loadCNFProblem, src/CNFReader.cc) and, in the *)
(* constructor for a file of symmetries, the generators                    *)
(* (src/SaucyReader.cc).  The solver notifies whatever it assigns, also    *)
(* when the controller could not load the problem.                         *)
(*                                                                         *)
(* An assertion that fails stops the program, as in a build without        *)
(* NDEBUG.                                                                 *)
(***************************************************************************)
EXTENDS Problem

-----------------------------------------------------------------------------
\* The character streams of the two readers: src/StreamBuffer.cc of the
\* library, and the one of utils/ParseUtils.h of the solver.  Both hold a piece
\* of the file and read the next piece when they are through it.
\*
\* A character is a string; a word that is only compared as a whole, "cnf" for
\* one, is a single character here.  Numbers have few digits: one that
\* overflows an int is undefined in both readers.

Eof == "EOF"

Digits == <<"0", "1", "2", "3", "4", "5", "6", "7", "8", "9">>

IsDigit(c) == c \in ToSet(Digits)

DigitValue(c) == (CHOOSE i \in DOMAIN Digits : Digits[i] = c) - 1

\* std::isspace, and the range of the solver.
IsSpace(c) == c \in {" ", "\n", "\t"}

\* A stream: the rest of the file, the piece in the buffer, and the place in it.
Opened(file, chunk) == [rest |-> file, buffer |-> << >>, index |-> 0, chunk |-> chunk]

\* read: the next piece of the file when the buffer is used up.
Read(s) ==
    IF s.index < Len(s.buffer) THEN s
    ELSE [s EXCEPT !.buffer = SubSeq(s.rest, 1, Min({s.chunk, Len(s.rest)})),
                   !.rest = SubSeq(s.rest, s.chunk + 1, Len(s.rest)),
                   !.index = 0]

\* The character that a stream which has been read is at.
At(s) == IF s.index < Len(s.buffer) THEN s.buffer[s.index + 1] ELSE Eof

Char(s) == At(Read(s))

\* The increment of a stream moves on and reads.
Advance(s) == LET r == Read(s) IN Read([r EXCEPT !.index = @ + 1])

SkipWhiteSpaces(s) ==
    LET RECURSIVE From(_)
        From(t) == IF IsSpace(Char(t)) THEN From(Advance(t)) ELSE Read(t)
    IN  From(s)

\* The end of the line is skipped as well.
SkipLine(s) ==
    LET RECURSIVE From(_)
        From(t) == IF Char(t) \in {"\n", Eof} THEN Advance(t) ELSE From(Advance(t))
    IN  From(s)

\* The number that a stream is at, and the stream after it: 0 where there is
\* none.
Number(s) ==
    LET RECURSIVE From(_, _)
        From(t, value) ==
            IF IsDigit(Char(t)) THEN From(Advance(t), 10 * value + DigitValue(Char(t)))
            ELSE [value |-> value, stream |-> Read(t)]
    IN  From(s, 0)

\* readInt: white space, a sign and digits.
ReadInt(s) ==
    LET digits(start) == IF Char(start) \in {"-", "+"} THEN Advance(start) ELSE start
        read(start) == [Number(digits(start)) EXCEPT !.value = IF Char(start) = "-" THEN -@ ELSE @]
    IN  read(SkipWhiteSpaces(s))

\* parseInt of the solver, which exits where there is no digit.
ParseInt(s) ==
    LET start == SkipWhiteSpaces(s)
        digit == IF Char(start) \in {"-", "+"} THEN Advance(start) ELSE start
    IN  ReadInt(s) @@ [exits |-> ~IsDigit(Char(digit))]

\* The characters of a word, or where they are not those of the stream.
EagerMatch(s, word) ==
    LET RECURSIVE From(_, _)
        From(t, k) ==
            IF k > Len(word) THEN [matches |-> TRUE, stream |-> t]
            ELSE IF Char(t) # word[k] THEN [matches |-> FALSE, stream |-> t]
            ELSE From(Advance(t), k + 1)
    IN  From(s, 1)

-----------------------------------------------------------------------------
CONSTANTS Files,        \* the problem files, with their files of symmetries
          Chunks        \* kBufferSize, and that of the solver

VARIABLES files,       \* the two files
          phase,       \* where the thread is
          stream,      \* the stream being read
          header,      \* the numbers of variables and of clauses announced
          solverVars,  \* nVars() of the solver
          formula,     \* the clauses given to the solver
          warned,      \* the solver has warned that the header is wrong
          handed       \* the generators given to the group

readerVars == <<files, stream, header>>
solverVariables == <<solverVars, formula, warned>>
vars == <<modelVars, readerVars, solverVariables, phase, handed>>

NoHeader == [vars |-> 0, clauses |-> 0]

Init ==
    /\ ModelInit
    /\ files \in Files
    /\ phase = "parse"
    /\ \E chunk \in Chunks : stream = Opened(files.cnf, chunk)
    /\ header = NoHeader
    /\ solverVars = 0
    /\ formula = << >>
    /\ warned = FALSE
    /\ handed = << >>

Restarted(file) == Opened(file, stream.chunk)

-----------------------------------------------------------------------------
\* The solver: parse_DIMACS_main.

ParseSkipLine ==
    /\ phase = "parse"
    /\ Char(SkipWhiteSpaces(stream)) = "c"
    /\ stream' = SkipLine(SkipWhiteSpaces(stream))
    /\ UNCHANGED <<modelVars, files, header, solverVariables, phase, handed>>

ParseHeader ==
    /\ phase = "parse"
    /\ Char(SkipWhiteSpaces(stream)) = "p"
    /\ \E match \in {EagerMatch(SkipWhiteSpaces(stream), <<"p", " ", "cnf">>)} :
       \E vs \in {ParseInt(match.stream)} : \E cs \in {ParseInt(vs.stream)} :
           IF ~match.matches \/ vs.exits \/ cs.exits
           THEN /\ phase' = "exited"
                /\ UNCHANGED <<stream, header>>
           ELSE /\ header' = [vars |-> vs.value, clauses |-> cs.value]
                /\ stream' = cs.stream
                /\ UNCHANGED phase
    /\ UNCHANGED <<modelVars, files, solverVariables, handed>>

\* readClause: the literals up to a 0; it exits on what is no number.
ReadClause(s) ==
    LET RECURSIVE From(_, _)
        From(t, lits) ==
            LET n == ParseInt(t)
            IN  IF n.exits \/ n.value = 0
                THEN [lits |-> lits, stream |-> n.stream, exits |-> n.exits]
                ELSE From(n.stream, Append(lits, n.value))
    IN  From(s, << >>)

ParseClause ==
    /\ phase = "parse"
    /\ Char(SkipWhiteSpaces(stream)) \notin {"c", "p", Eof}
    /\ \E clause \in {ReadClause(SkipWhiteSpaces(stream))} :
           IF clause.exits
           THEN /\ phase' = "exited"
                /\ UNCHANGED <<stream, solverVars, formula>>
           ELSE /\ stream' = clause.stream
                /\ formula' = Append(formula, clause.lits)
                /\ solverVars' = Max({solverVars} \cup
                                     {Variable(l) : l \in ToSet(clause.lits)})
                /\ UNCHANGED phase
    /\ UNCHANGED <<modelVars, files, header, warned, handed>>

\* The solver only warns about a header that is wrong.  The controller opens
\* the file again.
ParseEnd ==
    /\ phase = "parse"
    /\ Char(SkipWhiteSpaces(stream)) = Eof
    /\ warned' = (header.vars # solverVars \/ header.clauses # Len(formula))
    /\ phase' = "load"
    /\ stream' = Restarted(files.cnf)
    /\ header' = NoHeader
    /\ UNCHANGED <<modelVars, files, solverVars, formula, handed>>

-----------------------------------------------------------------------------
\* CNFReader::load.

LoadComment ==
    /\ phase = "load"
    /\ Char(stream) = "c"
    /\ stream' = SkipWhiteSpaces(SkipLine(stream))
    /\ UNCHANGED <<modelVars, files, header, solverVariables, phase, handed>>

\* Each character of the word is asserted; the rest of the line is skipped.
LoadHeader ==
    /\ phase = "load"
    /\ Char(stream) = "p"
    /\ \E match \in {EagerMatch(Advance(stream), <<" ", "cnf">>)} :
       \E vs \in {ReadInt(match.stream)} : \E cs \in {ReadInt(vs.stream)} :
           IF match.matches
           THEN /\ header' = [vars |-> vs.value, clauses |-> cs.value]
                /\ stream' = SkipWhiteSpaces(SkipLine(cs.stream))
                /\ UNCHANGED phase
           ELSE /\ phase' = "stopped"
                /\ UNCHANGED <<stream, header>>
    /\ UNCHANGED <<modelVars, files, solverVariables, handed>>

\* The literals up to a number 0, or to what is no number.
Literals0(s) ==
    LET RECURSIVE From(_, _)
        From(t, lits) ==
            LET n == ReadInt(t)
            IN  IF n.value = 0 THEN [lits |-> lits, stream |-> n.stream]
                ELSE From(n.stream, Append(lits, n.value))
    IN  From(s, << >>)

\* addClause asserts that the clause has a literal.  What follows the clause on
\* its line is skipped.
LoadClause ==
    /\ phase = "load"
    /\ Char(stream) \notin {"c", "p", Eof}
    /\ \E clause \in {Literals0(stream)} :
           IF clause.lits = << >>
           THEN /\ phase' = "stopped"
                /\ UNCHANGED <<stream, modelVars>>
           ELSE /\ AddClause(clause.lits)
                /\ stream' = SkipWhiteSpaces(SkipLine(clause.stream))
                /\ UNCHANGED phase
    /\ UNCHANGED <<files, header, solverVariables, handed>>

\* Mutant: the number of clauses is not compared.
WellFormedVars == numVariables = header.vars

\* What load returns.
WellFormed == numVariables = header.vars /\ numClauses = header.clauses

\* The constructor returns at once when the file is not well formed; else
\* _num_vars and the size of the assignment become those of the model.
LoadEnd ==
    /\ phase = "load"
    /\ Char(stream) = Eof
    /\ IF WellFormed
       THEN /\ phase' = "symmetries"
            /\ stream' = Restarted(files.sym)
       ELSE /\ phase' = "refused"
            /\ UNCHANGED stream
    /\ UNCHANGED <<modelVars, files, header, solverVariables, handed>>

-----------------------------------------------------------------------------
\* SaucyReader::load.

\* The literal of a node of the graph, 0 for the node of a clause.
GraphNodeToInt(node) ==
    IF node <= numVariables THEN node
    ELSE IF node <= 2 * numVariables THEN numVariables - node ELSE 0

WithNode(p, node) ==
    IF GraphNodeToInt(node) = 0 THEN p ELSE AddToCurrentCycle(p, GraphNodeToInt(node))

\* The cycles of a line, each up to its ")"; failed when something else is in
\* place of a comma.
CyclesOf(s) ==
    LET RECURSIVE InCycle(_, _), Cycles(_, _)
        InCycle(t, p) ==
            LET n == ReadInt(Advance(t))
                q == WithNode(p, n.value)
            IN  IF Char(n.stream) = ")"
                THEN Cycles(Advance(n.stream), CloseCurrentCycle(q))
                ELSE IF Char(n.stream) = "," THEN InCycle(n.stream, q)
                ELSE [stream |-> n.stream, permutation |-> q, fails |-> TRUE]
        Cycles(t, p) ==
            IF Char(t) = "(" THEN InCycle(t, p)
            ELSE [stream |-> t, permutation |-> p, fails |-> FALSE]
    IN  Cycles(s, EmptyPermutation)

Loaded == phase' = "running"

\* The opening lines; a file without generators has "]" next.
OpenGenerators ==
    LET match == EagerMatch(stream, <<"[", "\n">>)
    IN  /\ phase = "symmetries"
        /\ IF ~match.matches THEN phase' = "stopped" /\ UNCHANGED stream
           ELSE IF Char(match.stream) = "]" THEN Loaded /\ UNCHANGED stream
           ELSE phase' = "generators" /\ stream' = match.stream
        /\ UNCHANGED <<modelVars, files, header, solverVariables, handed>>

\* One line of the file.
LoadGenerator ==
    /\ phase = "generators"
    /\ Char(stream) # "\n"
    /\ \E line \in {CyclesOf(stream)} :
       \E next \in {EagerMatch(line.stream, <<",", "\n">>)} :
           IF Char(stream) # "(" \/ line.fails
              \/ (Char(line.stream) = "," /\ ~next.matches)
           THEN /\ phase' = "stopped"
                /\ UNCHANGED <<stream, handed>>
           ELSE /\ handed' = Append(handed, line.permutation)
                /\ stream' = IF next.matches THEN next.stream ELSE line.stream
                /\ UNCHANGED phase
    /\ UNCHANGED <<modelVars, files, header, solverVariables>>

EndGenerators ==
    /\ phase = "generators"
    /\ Char(stream) = "\n"
    /\ IF Char(Advance(stream)) = "]" THEN Loaded ELSE phase' = "stopped"
    /\ UNCHANGED <<modelVars, readerVars, solverVariables, handed>>

Next ==
    \/ ParseSkipLine \/ ParseHeader \/ ParseClause \/ ParseEnd
    \/ LoadComment \/ LoadHeader \/ LoadClause \/ LoadEnd
    \/ OpenGenerators \/ LoadGenerator \/ EndGenerators

Spec == Init /\ [][Next]_vars

-----------------------------------------------------------------------------
\* The types of the variables of both readers and of the solver.
TypeOK ==
    /\ phase \in {"parse", "exited", "load", "stopped", "refused", "symmetries",
                  "generators", "running"}
    /\ files \in Files
    /\ numVariables \in Variables
    /\ solverVars \in 0 .. NumVars
    /\ \A i \in DOMAIN formula : formula[i] \in Seq(Literal)
    /\ \A g \in DOMAIN handed : IsPermutationRecord(handed[g])

AsSets(f) == {ToSet(f[i]) : i \in DOMAIN f}

\* The two readers make the same problem of a file: when the solver has not
\* warned and the controller has accepted it, the controller's clauses are the
\* solver's, wherever the lines and the pieces of the file end, so that the
\* generators are symmetries of what the solver solves.
ReadersAgree ==
    (phase \in {"symmetries", "generators", "running"} /\ ~warned) =>
        /\ ToSet(clauses) = AsSets(formula)
        /\ numVariables = solverVars

\* The maps of the generators read are those written, on the literals, as
\* files.generators gives them: nodes of clauses are left out and the nodes of
\* negative literals found again.
GeneratorsAreThoseWritten ==
    phase = "running" =>
        /\ Len(handed) = Len(files.generators)
        /\ \A g \in DOMAIN handed, l \in Literal :
              (IF l \in DOMAIN handed[g].image THEN handed[g].image[l] ELSE l)
                  = files.generators[g][l]

\* The assignment of the controller, whose size is 0 until a problem is loaded.
AssignmentSize == IF phase = "refused" THEN 0 ELSE 2 * numVariables

\* The assertion of Bitset64::Set (Bitset.h:524): a literal that the
\* solver notifies has a place in the controller's assignment, whatever the
\* controller made of the file.
NotifiedLiteralsHavePlaces ==
    phase \in {"refused", "running"} => 2 * solverVars <= AssignmentSize

=============================================================================
