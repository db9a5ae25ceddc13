---------------------------- MODULE GDScriptFrontEnd ----------------------------
(***************************************************************************)
(* The front end of the GDScript compiler: the lexer scans a source, then  *)
(* the parser reads its tokens (Compiler::compile).                        *)
(***************************************************************************)
EXTENDS GDScriptLexer, GDScriptParser

CONSTANT
    Texts   \* records of a text and, in a sequence, the program it was written for, if any

VARIABLES
    written,  \* the program the source was written for, if any (a history variable)
    parsed  \* whether the parser has read the tokens

front_end_vars == <<lexer_vars, written, parsed>>

FrontEndInit ==
    /\ parsed = FALSE
    /\ \E s \in Texts : LexerInit({s.text}) /\ written = s.program

\* What the parser makes of the tokens, the properties say.
parse_tokens ==
    /\ lexed = "done" /\ ~parsed
    /\ parsed' = TRUE
    /\ UNCHANGED <<lexer_vars, written>>

FrontEndNext == (tokenize /\ UNCHANGED <<written, parsed>>) \/ parse_tokens

FrontEndSpec == FrontEndInit /\ [][FrontEndNext]_front_end_vars

-------------------------------------------------------------------------------
(* Properties. *)

\* What was written is what is read: however a program is laid out -- blank lines,
\* comments, line ends in brackets or after a backslash, statements on one line,
\* parentheses only where precedence asks for them -- the parser returns it.
ParsesWhatWasWritten ==
    [][ written # <<>> =>
          /\ lexed' # "error"
          /\ parsed' # parsed =>
                LET program == parse(m_tokens) IN program.ok /\ program.val = written[1] ]_front_end_vars

\* Lines, told apart without the lexer: a line starts at the beginning or behind a
\* line end that neither brackets nor a backslash make layout.
Brackets(i, set) == Cardinality({j \in 1 .. i : m_source[j] \in set})
LineStarts ==
    {1} \union { i + 1 : i \in { j \in 1 .. Len(m_source) :
        /\ m_source[j] = "LF"
        /\ Brackets(j, DOMAIN closer_for) = Brackets(j, Range(closer_for))
        /\ j = 1 \/ m_source[j - 1] # "BS" } }
Unbalanced ==
    Brackets(Len(m_source), DOMAIN closer_for) # Brackets(Len(m_source), Range(closer_for))
FirstOf(i) == CHOOSE j \in i .. Len(m_source) + 1 :
                  /\ j = Len(m_source) + 1 \/ m_source[j] \notin {"SP", "TAB"}
                  /\ \A k \in i .. j - 1 : m_source[k] \in {"SP", "TAB"}
IndentOf(i) == FoldLeft(LAMBDA w, p : w + (IF p = "TAB" THEN 4 ELSE 1), 0,
                        SubSeq(m_source, i, FirstOf(i) - 1))
CodeLines == { i \in LineStarts : FirstOf(i) <= Len(m_source) /\ m_source[FirstOf(i)] \notin {"LF", "#"} }

\* The lines around line i: those before it that are indented less than it and
\* than every line in between, of one indentation the last.
Around(i) == { j \in CodeLines : /\ j < i /\ IndentOf(j) < IndentOf(i)
                                 /\ \A k \in CodeLines : j < k /\ k < i => IndentOf(k) > IndentOf(j) }

\* A line goes back to the indentation of the file or of a line that is around
\* the one before it.
Fits(i) ==
    LET before == { j \in CodeLines : j < i }
    IN  \/ before = {} \/ IndentOf(i) = 0
        \/ \E j \in before : /\ IndentOf(j) = IndentOf(i)
                             /\ \A k \in before : k > j => IndentOf(k) >= IndentOf(j)
        \/ \A j \in before : (\A k \in before : k <= j) => IndentOf(i) > IndentOf(j)

DepthAt(n) ==
    Cardinality({k \in 1 .. n : m_tokens[k].type = "INDENT"})
        - Cardinality({k \in 1 .. n : m_tokens[k].type = "DEDENT"})

\* The blocks the tokens tell of are those of the indentation: every line of code
\* is in as many blocks as lines are around it (in one more before the first line that
\* is not indented).  A source is refused if, and only if, a line fits nowhere or
\* a bracket is left open.
BlocksFollowIndentation ==
    written = <<>> /\ lexed # "scanning" =>
        IF lexed = "error"
        THEN Unbalanced \/ \E i \in CodeLines : ~Fits(i)
        ELSE /\ ~Unbalanced
             /\ \A i \in CodeLines : Fits(i)
             /\ \A i \in CodeLines :
                LET ends == { k \in DOMAIN m_tokens : m_tokens[k].type = "NEWLINE" }
                    before == Cardinality({j \in LineStarts : j < i})
                    starts == { k \in DOMAIN m_tokens :
                                    /\ m_tokens[k].type \notin {"INDENT", "DEDENT"}
                                    /\ Cardinality({e \in ends : e < k}) = before }
                    floor == IF \A j \in CodeLines : j <= i => IndentOf(j) > 0 THEN 1 ELSE 0
                IN  starts # {} /\ DepthAt(CHOOSE k \in starts : \A l \in starts : k <= l)
                                        = Cardinality(Around(i)) + floor
===============================================================================
