----------------------------- MODULE GDScriptLexer -----------------------------
(***************************************************************************)
(* The lexer of the GDScript compiler (lexer.cpp): scan_token() until the  *)
(* end of the source, then the blocks that are still open are closed.      *)
(*                                                                         *)
(* The source is a sequence of pieces: blanks, line ends, the characters   *)
(* that operators, brackets and strings are made of, and whole words and   *)
(* digits.  A token is its type and its value.  Keywords, operators and    *)
(* brackets are named by what they look like.  Positions in the source and *)
(* doc comments, which only messages and descriptions use, are left out.   *)
(***************************************************************************)
EXTENDS Integers, Sequences, FiniteSets, SequencesExt, TLC

VARIABLES
    m_source,          \* the pieces to scan
    m_current,         \* those behind the lexer
    m_at_line_start,   \* the indentation of the line is next
    m_indent_stack,    \* the widths of the blocks that are open
    m_open_brackets,   \* the closing brackets that are awaited
    m_tokens,
    lexed              \* "scanning", "done" or "error"

lexer_vars ==
    <<m_source, m_current, m_at_line_start, m_indent_stack, m_open_brackets, m_tokens, lexed>>

Token(type, val) == [type |-> type, val |-> val]
Plain(type) == Token(type, "")

Blanks == {"SP", "TAB", "CR"}
Quotes == {"'", "\""}
closer_for == ("(" :> ")") @@ ("[" :> "]") @@ ("{" :> "}")

\* Digits are pieces of one decimal digit.
Digit == [d \in {"0", "1", "2", "3"} |->
            CASE d = "0" -> 0 [] d = "1" -> 1 [] d = "2" -> 2 [] d = "3" -> 3]

Keywords ==
    { "func", "var", "const", "return", "if", "else", "elif", "for", "in", "while", "break",
      "continue", "pass", "extends", "struct", "true", "false", "null", "and", "or", "not",
      "match", "switch", "is", "static", "enum", "class_name", "signal", "as" }

\* Operators and delimiters, by their characters.
Operators ==
    LET One(c) == <<c>> :> c
        Two(c, d, name) == <<c, d>> :> name
    IN  One(":") @@ One(",") @@ One(";") @@ One("@") @@ One("$") @@ One("~")
     @@ One(".") @@ Two(".", ".", "..")
     @@ One("+") @@ Two("+", "=", "+=") @@ One("-") @@ Two("-", "=", "-=")
     @@ One("*") @@ Two("*", "=", "*=") @@ Two("*", "*", "**") @@ (<<"*", "*", "=">> :> "**=")
     @@ One("/") @@ Two("/", "=", "/=") @@ One("%") @@ Two("%", "=", "%=")
     @@ One("=") @@ Two("=", "=", "==") @@ (<<"!">> :> "not") @@ Two("!", "=", "!=")
     @@ One("<") @@ Two("<", "=", "<=") @@ Two("<", "<", "<<") @@ (<<"<", "<", "=">> :> "<<=")
     @@ One(">") @@ Two(">", "=", ">=") @@ Two(">", ">", ">>") @@ (<<">", ">", "=">> :> ">>=")
     @@ One("&") @@ Two("&", "=", "&=") @@ Two("&", "&", "and")
     @@ One("|") @@ Two("|", "=", "|=") @@ Two("|", "|", "or")
     @@ One("^") @@ Two("^", "=", "^=")

-------------------------------------------------------------------------------
(* Reading ahead. *)

is_at_end == m_current >= Len(m_source)

\* The piece k after the next one; nothing is past the end.
peek_at(k) == IF m_current + k >= Len(m_source) THEN "END" ELSE m_source[m_current + k + 1]
peek == peek_at(0)

\* How many pieces from the k-th ahead are in a set.
Run(k, set) ==
    CHOOSE n \in 0 .. Len(m_source) :
        /\ \A i \in 0 .. n - 1 : peek_at(k + i) \in set
        /\ peek_at(k + n) \notin set

Scanning == lexed = "scanning"

\* What every case of scan_token does: it passes pieces and adds a token.
Scan(n, tokens) ==
    /\ m_current' = m_current + n
    /\ m_tokens' = m_tokens \o tokens
    /\ UNCHANGED <<m_source, m_indent_stack, lexed>>

error == lexed' = "error" /\ UNCHANGED <<m_source, m_current, m_at_line_start, m_indent_stack,
                                         m_open_brackets, m_tokens>>

\* scan_token, in the middle of a line.
scan(pieces) == Scanning /\ ~is_at_end /\ ~m_at_line_start /\ peek \in pieces

-------------------------------------------------------------------------------
(* Lines and blocks. *)

\* Nothing but a comment follows the blanks.
is_blank_line(n) == peek_at(n) \in {"END", "LF", "#"}

\* The first piece of a line: the indentation opens a block, or closes those
\* that are wider, unless the line is blank or holds only a comment.
handle_indent ==
    LET n == Run(0, {"SP", "TAB"})
        level == FoldLeft(LAMBDA w, p : w + (IF p = "TAB" THEN 4 ELSE 1), 0,
                          SubSeq(m_source, m_current + 1, m_current + n))
        kept == SelectSeq(m_indent_stack, LAMBDA w : w <= level)
        stack == IF is_blank_line(n) THEN m_indent_stack
                 ELSE IF level > Last(m_indent_stack) THEN Append(m_indent_stack, level) ELSE kept
    IN  /\ Scanning /\ ~is_at_end /\ m_at_line_start
        /\ IF ~is_blank_line(n) /\ Last(stack) # level THEN error
           ELSE /\ m_at_line_start' = FALSE
                /\ m_current' = m_current + n
                /\ m_indent_stack' = stack
                /\ m_tokens' = m_tokens
                        \o [i \in 1 .. Len(stack) - Len(m_indent_stack) |-> Plain("INDENT")]
                        \o [i \in 1 .. Len(m_indent_stack) - Len(stack) |-> Plain("DEDENT")]
                /\ UNCHANGED <<m_source, m_open_brackets, lexed>>

\* Inside brackets a line end is layout.
scan_newline ==
    /\ scan({"LF"})
    /\ m_at_line_start' = (m_open_brackets = <<>>)
    /\ Scan(1, IF m_open_brackets = <<>> THEN <<Plain("NEWLINE")>> ELSE <<>>)
    /\ UNCHANGED m_open_brackets

skip_blank == scan(Blanks) /\ Scan(1, <<>>) /\ UNCHANGED <<m_at_line_start, m_open_brackets>>

\* A backslash joins the next line; only blanks may follow it.
scan_continuation ==
    LET n == Run(1, Blanks)
    IN  /\ scan({"BS"})
        /\ IF peek_at(n + 1) # "LF" THEN error
           ELSE Scan(n + 2, <<>>) /\ UNCHANGED <<m_at_line_start, m_open_brackets>>

skip_comment ==
    /\ scan({"#"})
    /\ Scan(CHOOSE n \in 1 .. Len(m_source) :
                peek_at(n) \in {"LF", "END"} /\ \A i \in 1 .. n - 1 : peek_at(i) # "LF", <<>>)
    /\ UNCHANGED <<m_at_line_start, m_open_brackets>>

push_bracket ==
    /\ scan(DOMAIN closer_for)
    /\ m_open_brackets' = Append(m_open_brackets, closer_for[peek])
    /\ Scan(1, <<Plain(peek)>>)
    /\ UNCHANGED m_at_line_start

\* A closing bracket that nothing awaits is left to the parser.
pop_bracket ==
    /\ scan(Range(closer_for))
    /\ m_open_brackets' = IF m_open_brackets # <<>> /\ Last(m_open_brackets) = peek
                          THEN Front(m_open_brackets) ELSE m_open_brackets
    /\ Scan(1, <<Plain(peek)>>)
    /\ UNCHANGED m_at_line_start

-------------------------------------------------------------------------------
(* Operators, strings, numbers and words. *)

\* Pieces in front of a quote that make the string another kind of literal.
string_prefix == ("&" :> "STRING_NAME") @@ ("^" :> "NODE_PATH") @@ ("r" :> "STRING")

InFrontOfString == peek \in DOMAIN string_prefix /\ peek_at(1) \in Quotes

\* A bug to be caught: the third character of an operator is forgotten.
scan_operator_Mutant ==
    LET Spells(n) == [i \in 1 .. n |-> peek_at(i - 1)] \in DOMAIN Operators
        n == IF Spells(2) THEN 2 ELSE 1
    IN  /\ scan({op[1] : op \in DOMAIN Operators})
        /\ ~InFrontOfString
        /\ Scan(n, <<Plain(Operators[[i \in 1 .. n |-> peek_at(i - 1)]])>>)
        /\ UNCHANGED <<m_at_line_start, m_open_brackets>>

\* As many characters as make an operator.
scan_operator ==
    LET Spells(n) == [i \in 1 .. n |-> peek_at(i - 1)] \in DOMAIN Operators
        n == IF Spells(3) THEN 3 ELSE IF Spells(2) THEN 2 ELSE 1
    IN  /\ scan({op[1] : op \in DOMAIN Operators})
        /\ ~InFrontOfString
        /\ Scan(n, <<Plain(Operators[[i \in 1 .. n |-> peek_at(i - 1)]])>>)
        /\ UNCHANGED <<m_at_line_start, m_open_brackets>>

\* The pieces from the k-th ahead up to the quote that ends the string, those
\* after a backslash skipped: <<how many, what the string holds>>, or nothing
\* when the line, or for a triple quote the source, ends first.
RECURSIVE string_rest(_, _, _, _)
string_rest(k, quote, triple, raw) ==
    LET Ends(i) == peek_at(i) = quote /\ (triple => peek_at(i + 1) = quote /\ peek_at(i + 2) = quote)
        With(n, held) == LET rest == string_rest(k + n, quote, triple, raw)
                         IN  IF rest = <<>> THEN <<>> ELSE <<rest[1], held \o rest[2]>>
    IN  IF Ends(k) THEN <<k, <<>>>>
        ELSE IF peek_at(k) = "END" \/ (peek_at(k) = "LF" /\ ~triple) THEN <<>>
        ELSE IF peek_at(k) = "BS"
             THEN IF peek_at(k + 1) = "END" THEN <<>>
                  ELSE With(2, IF raw THEN <<"BS", peek_at(k + 1)>> ELSE <<peek_at(k + 1)>>)
             ELSE With(1, <<peek_at(k)>>)

scan_string ==
    LET prefixed == InFrontOfString
        k == IF prefixed THEN 1 ELSE 0
        type == IF prefixed THEN string_prefix[peek] ELSE "STRING"
        quote == peek_at(k)
        triple == peek_at(k + 1) = quote /\ peek_at(k + 2) = quote
        first == IF triple THEN k + 3 ELSE k + 1
        rest == string_rest(first, quote, triple, prefixed /\ peek = "r")
    IN  /\ scan(Quotes \union DOMAIN string_prefix)
        /\ peek \in Quotes \/ prefixed
        /\ IF rest = <<>> THEN error
           ELSE /\ Scan(rest[1] + (IF triple THEN 3 ELSE 1), <<Token(type, rest[2])>>)
                /\ UNCHANGED <<m_at_line_start, m_open_brackets>>

\* Digits, and a fraction when a digit follows the point.
scan_number ==
    LET Number(n) == FoldLeft(LAMBDA v, d : 10 * v + Digit[d], 0,
                              SubSeq(m_source, m_current + 1, m_current + n))
        whole == Run(0, DOMAIN Digit)
        part  == Run(whole + 1, DOMAIN Digit)
    IN  /\ scan(DOMAIN Digit)
        /\ IF peek_at(whole) = "." /\ part > 0
           THEN Scan(whole + 1 + part,
                     <<Token("FLOAT", SubSeq(m_source, m_current + 1, m_current + whole + 1 + part))>>)
           ELSE Scan(whole, <<Token("INTEGER", Number(whole))>>)
        /\ UNCHANGED <<m_at_line_start, m_open_brackets>>

Characters ==
    Blanks \union Quotes \union DOMAIN closer_for \union Range(closer_for) \union DOMAIN Digit
    \union {op[1] : op \in DOMAIN Operators} \union {"LF", "BS", "#"}

scan_identifier ==
    /\ Scanning /\ ~is_at_end /\ ~m_at_line_start
    /\ peek \notin Characters /\ ~InFrontOfString
    /\ Scan(1, <<IF peek \in Keywords THEN Plain(peek) ELSE Token("IDENTIFIER", peek)>>)
    /\ UNCHANGED <<m_at_line_start, m_open_brackets>>

\* A bug to be caught: brackets that are still open at the end go unnoticed.
tokenize_ends_Mutant ==
    /\ Scanning /\ is_at_end
    /\ m_indent_stack' = <<0>>
    /\ m_tokens' = m_tokens \o [i \in 1 .. Len(m_indent_stack) - 1 |-> Plain("DEDENT")]
                            \o <<Plain("EOF")>>
    /\ lexed' = "done"
    /\ UNCHANGED <<m_source, m_current, m_at_line_start, m_open_brackets>>

\* The end of the source closes every block; a bracket that is open is an error.
tokenize_ends ==
    /\ Scanning /\ is_at_end
    /\ IF m_open_brackets # <<>> THEN error
       ELSE /\ m_indent_stack' = <<0>>
            /\ m_tokens' = m_tokens \o [i \in 1 .. Len(m_indent_stack) - 1 |-> Plain("DEDENT")]
                                    \o <<Plain("EOF")>>
            /\ lexed' = "done"
            /\ UNCHANGED <<m_source, m_current, m_at_line_start, m_open_brackets>>

LexerInit(sources) ==
    /\ m_source \in sources
    /\ m_current = 0
    /\ m_at_line_start = TRUE
    /\ m_indent_stack = <<0>>
    /\ m_open_brackets = <<>>
    /\ m_tokens = <<>>
    /\ lexed = "scanning"

tokenize ==
    \/ handle_indent \/ scan_newline \/ skip_blank \/ scan_continuation \/ skip_comment
    \/ push_bracket \/ pop_bracket \/ scan_operator \/ scan_string \/ scan_number
    \/ scan_identifier \/ tokenize_ends
===============================================================================
