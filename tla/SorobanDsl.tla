----------------------------- MODULE SorobanDsl -----------------------------
(***************************************************************************)
(* The scanner, the parser and the evaluator of native/soroban-dsl.        *)
(* The scanner of src/lexer.rs reads sources that grow one character at a  *)
(* time.  A character stands for its class: "a" for letters, "0" for       *)
(* digits, " " for blanks but the end of line, "#" for characters that     *)
(* begin no token.                                                         *)
(***************************************************************************)
EXTENDS Integers, Sequences, FiniteSets, SequencesExt

CONSTANTS
    Characters,  \* classes in the sources checked
    MAX_TOKENS,
    MaxDigits,   \* digits of the largest i128
    MaxSource    \* bound: length of a source

ASSUME DslLexerAssumption == {MAX_TOKENS, MaxDigits, MaxSource} \subseteq Nat

VARIABLE source

Peek(at) == IF at \in DOMAIN source THEN source[at] ELSE "end"

Letters == {"a", "_"}
Blanks == {" ", "\n"}
Single == {"+", "-", "*", "/", "%", ";", ",", ".", "(", ")", "{", "}", "[", "]"}
Doubling == {"=", "!", "<", ">"}   \* with = after them, one token
Paired == {"&", "|"}               \* only as a pair

\* A token, or an error at the token's start.
Token(kind, start, after) == [kind |-> kind, start |-> start, after |-> after]

\* The first position from at on that satisfies Ends, or the end.
Until(at, Ends(_)) ==
    CHOOSE p \in at .. Len(source) + 1 :
        (p > Len(source) \/ Ends(p)) /\ \A q \in at .. p - 1 : ~Ends(q)

RECURSIVE skip_whitespace_and_comments(_), StringEnd(_), tokenize_from(_, _)

skip_whitespace_and_comments(at) ==
    LET p == Until(at, LAMBDA q : Peek(q) \notin Blanks)
    IN  IF Peek(p) = "/" /\ Peek(p + 1) = "/"
        THEN skip_whitespace_and_comments(Until(p, LAMBDA q : Peek(q) = "\n")) ELSE p

\* Where the string ends whose next character is at: 0 when it does not.
StringEnd(at) ==
    CASE Peek(at) \in {"end", "\n"} -> 0
      [] Peek(at) = "\"" -> at + 1
      [] Peek(at) = "\\" -> IF Peek(at + 1) = "end" THEN 0 ELSE StringEnd(at + 2)
      [] OTHER -> StringEnd(at + 1)

lex_string(start) ==
    LET after == StringEnd(start + 1)
    IN  IF after = 0 THEN Token("UnterminatedString", start, start) ELSE Token("str", start, after)

DigitsEnd(at) == Until(at, LAMBDA q : Peek(q) # "0")

\* Regression: the point belongs to the number, digits after it or not.
lex_numberPoint(start) ==
    LET whole == DigitsEnd(start)
    IN  IF Peek(whole) = "." THEN Token("float", start, DigitsEnd(whole + 1))
        ELSE IF whole - start > MaxDigits THEN Token("UnexpectedToken", start, start) ELSE Token("int", start, whole)

lex_number(start) ==
    LET whole == DigitsEnd(start)
    IN  IF Peek(whole) = "." /\ Peek(whole + 1) = "0" THEN Token("float", start, DigitsEnd(whole + 1))
        ELSE IF whole - start > MaxDigits THEN Token("UnexpectedToken", start, start) ELSE Token("int", start, whole)

lex_ident(start) == Token("word", start, Until(start, LAMBDA q : Peek(q) \notin Letters \cup {"0"}))

\* Pairs: of matches('=') the second character is optional, of && and || it is not.
lex_operator(start) ==
    CASE Peek(start) \in Single -> Token("op", start, start + 1)
      [] Peek(start) \in Doubling -> Token("op", start, start + (IF Peek(start + 1) = "=" THEN 2 ELSE 1))
      [] Peek(start) \in Paired ->
            IF Peek(start + 1) = Peek(start) THEN Token("op", start, start + 2)
            ELSE Token("UnexpectedChar", start, start)

\* The branch of '-' before a digit is never taken: '-' is matched before it.
next_token(start) ==
    CASE Peek(start) \in Single \cup Doubling \cup Paired -> lex_operator(start)
      [] Peek(start) = "\"" -> lex_string(start)
      [] Peek(start) = "0" -> lex_number(start)
      [] Peek(start) \in Letters -> lex_ident(start)
      [] OTHER -> Token("UnexpectedChar", start, start)

\* Regression: the limit is a token too high.
tokenize_fromOneMore(at, read) ==
    LET p == skip_whitespace_and_comments(at)
        t == next_token(p)
    IN  IF p > Len(source) THEN Append(read, Token("eof", p, p))
        ELSE IF t.after = t.start THEN <<t>>
        ELSE IF Len(read) > MAX_TOKENS THEN <<Token("ProgramTooLong", p, p)>>
        ELSE tokenize_from(t.after, Append(read, t))

\* tokenize(): all tokens and the end of file, or one error.
tokenize_from(at, read) ==
    LET p == skip_whitespace_and_comments(at)
        t == next_token(p)
    IN  IF p > Len(source) THEN Append(read, Token("eof", p, p))
        ELSE IF t.after = t.start THEN <<t>>
        ELSE IF Len(read) + 1 > MAX_TOKENS THEN <<Token("ProgramTooLong", p, p)>>
        ELSE tokenize_from(t.after, Append(read, t))

tokenize == tokenize_from(1, <<>>)

LexerInit == source = <<>>
LexerNext == Len(source) < MaxSource /\ \E c \in Characters : source' = Append(source, c)
LexerSpec == LexerInit /\ [][LexerNext]_source

-----------------------------------------------------------------------------
(* The lexemes.                                                          *)

\* An odd number of backslashes ends before q.
Escaped(q) ==
    \E n \in 0 .. q \div 2 : LET first == q - 2 * n - 1
                            IN  /\ first > 0 /\ \A o \in first .. q - 1 : source[o] = "\\"
                                /\ first > 1 => source[first - 1] # "\\"

\* Positions i .. j are one lexeme.
Lexeme(i, j) ==
    LET All(from, to, S) == from <= to /\ \A q \in from .. to : source[q] \in S
    IN  \/ i = j /\ source[i] \in Single \cup Doubling
        \/ j = i + 1 /\ source[i] \in Doubling /\ source[j] = "="
        \/ j = i + 1 /\ source[i] \in Paired /\ source[j] = source[i]
        \/ source[i] \in Letters /\ All(i, j, Letters \cup {"0"})
        \/ All(i, j, {"0"})
        \/ \E p \in i + 1 .. j - 1 : source[p] = "." /\ All(i, p - 1, {"0"}) /\ All(p + 1, j, {"0"})
        \/ /\ i < j /\ source[i] = "\"" /\ source[j] = "\"" /\ ~Escaped(j)
           /\ \A q \in i + 1 .. j - 1 : source[q] \in {"\n", "\""} => Escaped(q)

\* Positions i .. j are blanks and comments.
Blank(i, j) ==
    \A q \in i .. j : source[q] \in Blanks \/
        \E c \in i .. q : /\ source[c] = "/" /\ Peek(c + 1) = "/" /\ c + 1 <= j
                          /\ \A o \in c .. q : source[o] # "\n"

-----------------------------------------------------------------------------
(* Properties.                                                           *)

Accepted(read) == Last(read).kind = "eof"

\* The tokens of an accepted source are its lexemes, each the longest that begins there,
\* with nothing but blanks and comments between them and around them.
TokensTileSource ==
    \A read \in {tokenize} : Accepted(read) =>
        \A n \in DOMAIN read :
            LET t == read[n]
            IN  /\ Blank(IF n = 1 THEN 1 ELSE read[n - 1].after, t.start - 1)
                /\ t.kind # "eof" =>
                    Lexeme(t.start, t.after - 1) /\ \A j \in t.after .. Len(source) : ~Lexeme(t.start, j)

\* A source is refused for its length, or where no lexeme begins; a number that fits no
\* i128 is none, and the limit is on the tokens without the end of file.
RefusedForCause ==
    \A read \in {tokenize} :
        IF Accepted(read) THEN Len(read) - 1 <= MAX_TOKENS
        ELSE LET e == Last(read)
             IN  \/ e.kind = "ProgramTooLong"
                 \/ e.kind = "UnexpectedToken" /\ DigitsEnd(e.start) - e.start > MaxDigits
                 \/ \A j \in e.start .. Len(source) : ~Lexeme(e.start, j)

-----------------------------------------------------------------------------
(***************************************************************************)
(* The parser of native/soroban-dsl/src/parser.rs: recursive descent over  *)
(* a token stream, beside the grammar its comments give.  The stream grows *)
(* one token at a time while the parser asks for more.  A token is its     *)
(* kind; the end-of-file token is the end of the sequence.                 *)
(***************************************************************************)

CONSTANTS
    Alphabet,       \* kinds of tokens in the streams checked
    DSL_MAX_DEPTH,  \* MAX_DEPTH
    MaxTokens       \* bound: length of a stream

ASSUME DslParserAssumption == {DSL_MAX_DEPTH, MaxTokens} \subseteq Nat

VARIABLE tokens

Kind(at) == IF at \in DOMAIN tokens THEN tokens[at] ELSE "eof"

\* A DslResult: the node and the position after it, or the error and where it arose.
Parsed(node, at) == [ok |-> TRUE, node |-> node, at |-> at]
ParseFailed(why, at) == [ok |-> FALSE, node |-> why, at |-> at]

\* The operator ? of Rust.
Try(r, Go(_)) == IF r.ok THEN Go(r) ELSE r

expect(kind, at, node) ==
    IF Kind(at) = kind THEN Parsed(node, at + 1) ELSE ParseFailed("UnexpectedToken", at)

\* parse_or() down to parse_multiply(): the operators of each level.
Levels == <<{"||"}, {"&&"}, {"==", "!="}, {"<", "<=", ">", ">="}, {"+", "-"}, {"*", "/", "%"}>>

Literals == {"num", "float", "str", "true", "false", "null"}

RECURSIVE parse_level(_, _, _), loop_level(_, _, _), parse_unary(_, _), parse_postfix(_, _),
          parse_args(_, _, _)

\* Regression: the depth is never counted.
parse_exprDeep(at, depth) == parse_level(1, at, depth)

\* parse_expr(), with_depth()
parse_expr(at, depth) ==
    IF depth >= DSL_MAX_DEPTH THEN ParseFailed("NestingTooDeep", at) ELSE parse_level(1, at, depth + 1)

parse_level(level, at, depth) ==
    IF level > Len(Levels) THEN parse_unary(at, depth)
    ELSE Try(parse_level(level + 1, at, depth), LAMBDA lhs : loop_level(level, lhs, depth))

\* Regression: the right operand is of the same level, which makes operators
\* associate to the right.
loop_levelRight(level, lhs, depth) ==
    IF Kind(lhs.at) \notin Levels[level] THEN lhs
    ELSE Try(parse_level(level, lhs.at + 1, depth), LAMBDA rhs :
             loop_level(level, Parsed(<<Kind(lhs.at), lhs.node, rhs.node>>, rhs.at), depth))

loop_level(level, lhs, depth) ==
    IF Kind(lhs.at) \notin Levels[level] THEN lhs
    ELSE Try(parse_level(level + 1, lhs.at + 1, depth), LAMBDA rhs :
             loop_level(level, Parsed(<<Kind(lhs.at), lhs.node, rhs.node>>, rhs.at), depth))

\* parse_primary()
parse_primary(at, depth) ==
    CASE Kind(at) \in Literals -> Parsed(<<Kind(at)>>, at + 1)
      [] Kind(at) = "id" /\ Kind(at + 1) # "(" -> Parsed(<<"id">>, at + 1)
      [] Kind(at) = "id" /\ Kind(at + 1) = "(" ->
            Try(IF Kind(at + 2) = ")" THEN Parsed(<<>>, at + 2) ELSE parse_args(<<>>, at + 2, depth),
                LAMBDA args : expect(")", args.at, <<"call", args.node>>))
      [] Kind(at) = "(" -> Try(parse_expr(at + 1, depth), LAMBDA e : expect(")", e.at, e.node))
      [] OTHER -> ParseFailed("UnexpectedToken", at)

parse_args(args, at, depth) ==
    Try(parse_expr(at, depth), LAMBDA e :
        IF Kind(e.at) = "," THEN parse_args(Append(args, e.node), e.at + 1, depth)
        ELSE Parsed(Append(args, e.node), e.at))

parse_unary(at, depth) ==
    IF Kind(at) \in {"-", "!"}
    THEN Try(parse_unary(at + 1, depth), LAMBDA e : Parsed(<<Kind(at), e.node>>, e.at))
    ELSE Try(parse_primary(at, depth), LAMBDA e : parse_postfix(e, depth))

parse_postfix(e, depth) ==
    CASE Kind(e.at) = "." ->
            Try(expect("id", e.at + 1, <<"field", e.node>>), LAMBDA f : parse_postfix(f, depth))
      [] Kind(e.at) = "[" ->
            Try(Try(parse_expr(e.at + 1, depth), LAMBDA i : expect("]", i.at, <<"index", e.node, i.node>>)),
                LAMBDA f : parse_postfix(f, depth))
      [] OTHER -> e

-----------------------------------------------------------------------------
(* Statements.  Blocks open at any depth: only parse_expr() counts it.   *)

RECURSIVE parse_stmts(_, _, _)

parse_block(at) ==
    Try(expect("{", at, <<>>), LAMBDA open :
        Try(parse_stmts(<<>>, open.at, "}"), LAMBDA body : expect("}", body.at, body.node)))

parse_if(at) ==
    Try(parse_expr(at + 1, 0), LAMBDA c : Try(parse_block(c.at), LAMBDA then :
        IF Kind(then.at) # "else" THEN Parsed(<<"if", c.node, then.node>>, then.at)
        ELSE Try(parse_block(then.at + 1), LAMBDA else :
                 Parsed(<<"if", c.node, then.node, else.node>>, else.at))))

parse_stmt(at) ==
    CASE Kind(at) = "let" ->
            Try(expect("id", at + 1, <<>>), LAMBDA n : Try(expect("=", n.at, <<>>), LAMBDA q :
                Try(parse_expr(q.at, 0), LAMBDA e : expect(";", e.at, <<"let", e.node>>))))
      [] Kind(at) = "return" -> Try(parse_expr(at + 1, 0), LAMBDA e : expect(";", e.at, <<"return", e.node>>))
      [] Kind(at) = "if" -> parse_if(at)
      [] OTHER -> ParseFailed("UnexpectedToken", at)

\* The loops of parse() and parse_block(): statements up to the end or a brace.
parse_stmts(stmts, at, end) ==
    IF Kind(at) \in {end, "eof"} THEN Parsed(stmts, at)
    ELSE Try(parse_stmt(at), LAMBDA s : parse_stmts(Append(stmts, s.node), s.at, end))

parse == parse_stmts(<<>>, 1, "eof")

-----------------------------------------------------------------------------

ParserInit == tokens = <<>>

\* The stream grows unless the parser has refused it before its end.
ParserNext ==
    /\ Len(tokens) < MaxTokens
    /\ parse.ok \/ parse.at > Len(tokens)
    /\ \E t \in Alphabet : tokens' = Append(tokens, t)

ParserSpec == ParserInit /\ [][ParserNext]_tokens

-----------------------------------------------------------------------------
(* The grammar: every tree of tokens i .. j.                             *)

RECURSIVE Expr(_, _, _), ExprList(_, _), Stmts(_, _)

Postfix(i, j) ==
    UNION {
      IF i = j /\ tokens[i] \in Literals \cup {"id"} THEN {<<tokens[i]>>} ELSE {},
      IF i < j /\ tokens[i] = "(" /\ tokens[j] = ")" THEN Expr(1, i + 1, j - 1) ELSE {},
      IF i + 1 < j /\ tokens[i] = "id" /\ tokens[i + 1] = "(" /\ tokens[j] = ")"
        THEN {<<"call", args>> : args \in ExprList(i + 2, j - 1)} ELSE {},
      IF i + 1 < j /\ tokens[j] = "id" /\ tokens[j - 1] = "."
        THEN {<<"field", e>> : e \in Expr(8, i, j - 2)} ELSE {},
      IF i + 1 < j /\ tokens[j] = "]"
        THEN UNION {{<<"index", e, x>> : e \in Expr(8, i, k - 1), x \in Expr(1, k + 1, j - 1)} :
                    k \in {k \in i + 1 .. j - 1 : tokens[k] = "["}} ELSE {}}

Expr(level, i, j) ==
    CASE i > j -> {}
      [] i <= j /\ level = 8 -> Postfix(i, j)
      [] i <= j /\ level = 7 ->
            Expr(8, i, j) \cup IF tokens[i] \in {"-", "!"} THEN {<<tokens[i], e>> : e \in Expr(7, i + 1, j)} ELSE {}
      [] OTHER ->
            Expr(level + 1, i, j) \cup
            UNION {{<<tokens[k], l, r>> : l \in Expr(level, i, k - 1), r \in Expr(level + 1, k + 1, j)} :
                   k \in {k \in i + 1 .. j - 1 : tokens[k] \in Levels[level]}}

ExprList(i, j) ==
    IF i > j THEN {<<>>}
    ELSE {<<e>> : e \in Expr(1, i, j)} \cup
         UNION {{<<e>> \o rest : e \in Expr(1, i, k - 1), rest \in ExprList(k + 1, j) \ {<<>>}} :
                k \in {k \in i + 1 .. j - 1 : tokens[k] = ","}}

Block(i, j) == IF i < j /\ tokens[i] = "{" /\ tokens[j] = "}" THEN Stmts(i + 1, j - 1) ELSE {}

Stmt(i, j) ==
    UNION {
      IF i + 3 < j /\ SubSeq(tokens, i, i + 2) = <<"let", "id", "=">> /\ tokens[j] = ";"
        THEN {<<"let", e>> : e \in Expr(1, i + 3, j - 1)} ELSE {},
      IF tokens[i] = "return" /\ tokens[j] = ";" THEN {<<"return", e>> : e \in Expr(1, i + 1, j - 1)} ELSE {},
      IF tokens[i] = "if" /\ tokens[j] = "}"
        THEN UNION {{<<"if", c, b>> : c \in Expr(1, i + 1, k - 1), b \in Block(k, j)} : k \in i + 1 .. j} \cup
             UNION {{<<"if", c, b, o>> : c \in Expr(1, i + 1, k - 1), b \in Block(k, m - 1), o \in Block(m + 1, j)} :
                    k \in i + 1 .. j, m \in {m \in i + 1 .. j : tokens[m] = "else"}} ELSE {}}

Stmts(i, j) ==
    IF i > j THEN {<<>>}
    ELSE UNION {{<<s>> \o rest : s \in Stmt(i, k), rest \in Stmts(k + 1, j)} :
                k \in {k \in i .. j : tokens[k] \in {";", "}"}}}

\* Brackets of expressions open after the first n tokens.
Open(n) ==
    Cardinality({k \in 1 .. n : tokens[k] \in {"(", "["}}) - Cardinality({k \in 1 .. n : tokens[k] \in {")", "]"}})

-----------------------------------------------------------------------------
(* Properties.                                                           *)

\* Recursive descent accepts what the grammar derives, with its one tree: operators bind
\* by level and to the left, unary ones tighter than any, postfix ones tighter still.
ParsesGrammar ==
    LET trees == Stmts(1, Len(tokens))
    IN  IF parse.ok THEN trees = {parse.node} ELSE trees = {} \/ parse.node = "NestingTooDeep"

\* The limit counts the brackets of expressions, no more and no less: it refuses the
\* expression inside the MAX_DEPTH-th bracket that is open, and accepts those before.
LimitIsBrackets ==
    /\ parse.node = "NestingTooDeep" => Open(parse.at - 1) >= DSL_MAX_DEPTH
    /\ parse.ok => \A n \in DOMAIN tokens : Open(n) < DSL_MAX_DEPTH \/ tokens[n + 1] = ")"

-----------------------------------------------------------------------------
(***************************************************************************)
(* The evaluator of native/soroban-dsl/src/eval.rs over programs built     *)
(* node by node: its step budget, its integers of fixed width and the      *)
(* errors it answers with.  Values carry their type: "int" stands for the  *)
(* integer types, "str" for those with text, "vec" for containers.         *)
(* The text of a string is a sequence of parts.                            *)
(***************************************************************************)

CONSTANTS
    MinI128, MaxI128,  \* the range of i128, in small
    STEP_BUDGET,
    MaxDecimals,       \* 18
    Atoms,            \* literals and variables of the programs checked
    outerContext,      \* bindings of the host
    MaxNodes           \* bound: nodes of a program

ASSUME DslEvalAssumption ==
    {MinI128, MaxI128} \subseteq Int /\ {STEP_BUDGET, MaxDecimals, MaxNodes} \subseteq Nat

VARIABLES
    exprs,    \* expressions built and not used yet, the last on top
    program   \* statements

evalvars == <<exprs, program>>

\* A DslResult with the steps left.
Value(v, steps) == [ok |-> TRUE, val |-> v, steps |-> steps]
Abort(why, steps) == [ok |-> FALSE, val |-> why, steps |-> steps]
AndThen(r, Go(_, _)) == IF r.ok THEN Go(r.val, r.steps) ELSE r

IntVal(n) == <<"int", n>>
BoolVal(b) == <<"bool", b>>
as_i128(v) == v[1] = "int"
is_truthy(v) == v # <<"bool", FALSE>> /\ v # <<"void">>

\* Division of Rust truncates.
Abs(n) == IF n < 0 THEN -n ELSE n
Quotient(l, r) == IF (l < 0) = (r < 0) THEN Abs(l) \div Abs(r) ELSE -(Abs(l) \div Abs(r))
Remainder(l, r) == l - r * Quotient(l, r)

\* Regression: overflows wrap around.
CheckedWrap(n, s) == Value(IntVal(MinI128 + ((n - MinI128) % (MaxI128 - MinI128 + 1))), s)

Checked(n, s) == IF n \in MinI128 .. MaxI128 THEN Value(IntVal(n), s) ELSE Abort("Overflow", s)

eval_unary(op, v, s) ==
    CASE op = "neg" -> IF as_i128(v) THEN Checked(-v[2], s) ELSE Abort("TypeError", s)
      [] op = "not" -> IF v[1] = "bool" THEN Value(BoolVal(~v[2]), s) ELSE Abort("TypeError", s)

\* eval_binop(): + - * are checked.  / and % are not: the smallest integer by -1 panics.
eval_binop(op, a, b, s) ==
    LET l == a[2]  r == b[2]
        text == op = "+" /\ a[1] = "str" /\ b[1] = "str"
        Divided(n) == CASE r = 0 -> Abort("DivisionByZero", s)
                        [] l = MinI128 /\ r = -1 -> Abort("panic", s)
                        [] OTHER -> Value(IntVal(n), s)
    IN
    CASE op = "==" -> Value(BoolVal(a = b), s)
      [] text -> Value(<<"str", l \o r>>, s)
      [] op # "==" /\ ~text ->
            IF ~as_i128(a) \/ ~as_i128(b) THEN Abort("TypeError", s)
            ELSE CASE op = "+" -> Checked(l + r, s)
                   [] op = "-" -> Checked(l - r, s)
                   [] op = "*" -> Checked(l * r, s)
                   [] op = "<" -> Value(BoolVal(l < r), s)
                   [] op = "/" -> Divided(IF r = 0 THEN 0 ELSE Quotient(l, r))
                   [] op = "%" -> Divided(IF r = 0 THEN 0 ELSE Remainder(l, r))

\* expr[expr]: an index past the range of i64 is out of range as well.
eval_index(obj, idx, s) ==
    CASE ~as_i128(idx) -> Abort("TypeError", s)
      [] as_i128(idx) /\ obj[1] # "vec" -> Abort("TypeError", s)
      [] as_i128(idx) /\ obj[1] = "vec" ->
            IF idx[2] \in 0 .. Len(obj[2]) - 1 THEN Value(obj[2][idx[2] + 1], s) ELSE Abort("IndexOutOfRange", s)

\* Regression: the division rounds down, as no operator of Rust does.
format_amountTenth(raw, dec, s) ==
    CASE ~as_i128(raw) \/ ~as_i128(dec) -> Abort("TypeError", s)
      [] as_i128(raw) /\ as_i128(dec) ->
            IF dec[2] \notin 0 .. MaxDecimals THEN Abort("InvalidPrecision", s)
            ELSE Value(<<"str", <<raw[2] \div (10 ^ dec[2]), raw[2] % (10 ^ dec[2])>> >>, s)

\* format_amount(value, decimals): the text is the whole part and the fraction, and the
\* whole part alone carries the sign.
format_amount(raw, dec, s) ==
    CASE ~as_i128(raw) \/ ~as_i128(dec) -> Abort("TypeError", s)
      [] as_i128(raw) /\ as_i128(dec) ->
            IF dec[2] \notin 0 .. MaxDecimals THEN Abort("InvalidPrecision", s)
            ELSE Value(<<"str", <<Quotient(raw[2], 10 ^ dec[2]), Abs(Remainder(raw[2], 10 ^ dec[2]))>> >>, s)

\* The names of the built-in functions with the number of their arguments; concat takes any.
builtins == [format_amount |-> 2, shorten |-> 1, to_string |-> 1, if_else |-> 3, len |-> 1]
require_args(name, args) == Len(args) = builtins[name]

is_text(v) == v[1] \in {"str", "address"}

\* A text of one part is too short to be shortened.
shorten_address(t) == IF Len(t) <= 1 THEN t ELSE << <<"short", t>> >>

\* What a value is written as: the parts of a string, or itself.
text_of(v) == IF is_text(v) THEN v[2] ELSE <<v>>

eval_call(name, args, s) ==
    CASE name = "concat" -> Value(<<"str", FlattenSeq([n \in DOMAIN args |-> text_of(args[n])])>>, s)
      [] name \in DOMAIN builtins ->
           (CASE ~require_args(name, args) -> Abort("TypeError", s)
              [] OTHER ->
                 CASE name = "format_amount" -> format_amount(args[1], args[2], s)
                   [] name = "if_else" -> Value(IF is_truthy(args[1]) THEN args[2] ELSE args[3], s)
                   [] name = "to_string" -> Value(<<"str", text_of(args[1])>>, s)
                   [] name = "shorten" -> IF is_text(args[1]) THEN Value(<<"str", shorten_address(args[1][2])>>, s)
                                          ELSE Abort("TypeError", s)
                   [] name = "len" -> IF is_text(args[1]) \/ args[1][1] = "vec" THEN Value(IntVal(Len(args[1][2])), s)
                                      ELSE Abort("TypeError", s))
      [] OTHER -> Abort("UndefinedVariable", s)

\* expr.field, of an address.
get_field(obj, field, s) ==
    IF obj[1] = "address" /\ field \in {"full", "short"}
    THEN Value(<<"str", IF field = "full" THEN obj[2] ELSE shorten_address(obj[2])>>, s)
    ELSE Abort("NoSuchField", s)

\* A local binding hides the outer context.
lookup(env, name, s) == IF name \in DOMAIN env THEN Value(env[name], s) ELSE Abort("UndefinedVariable", s)

\* Every node and every statement is a step.
tick(steps, Go(_)) == IF steps = 0 THEN Abort("StepBudgetExceeded", 0) ELSE Go(steps - 1)

RECURSIVE eval_expr(_, _, _), eval_args(_, _, _, _), run_stmts(_, _)

\* Regression: leaves are free.
eval_exprFree(e, env, steps) ==
    IF steps = 0 THEN Abort("StepBudgetExceeded", 0)
    ELSE CASE e[1] = "lit" -> Value(e[2], steps)
           [] e[1] = "var" -> lookup(env, e[2], steps)
           [] e[1] \in {"neg", "not"} ->
                AndThen(eval_expr(e[2], env, steps - 1), LAMBDA v, s : eval_unary(e[1], v, s))
           [] OTHER ->
                AndThen(eval_expr(e[2], env, steps - 1), LAMBDA l, s :
                    AndThen(eval_expr(e[3], env, s), LAMBDA r, t : eval_binop(e[1], l, r, t)))

\* && and || leave their right operand out when the left decides; the arguments of a
\* call, if_else among them, are all evaluated, from the left.
eval_expr(e, env, steps) == tick(steps, LAMBDA left :
    LET Pair(Go(_, _, _)) ==
            AndThen(eval_expr(e[2], env, left), LAMBDA l, s :
                AndThen(eval_expr(e[3], env, s), LAMBDA r, t : Go(l, r, t)))
    IN  CASE e[1] = "lit" -> Value(e[2], left)
          [] e[1] = "var" -> lookup(env, e[2], left)
          [] e[1] = "field" -> AndThen(eval_expr(e[2], env, left), LAMBDA v, s : get_field(v, e[3], s))
          [] e[1] \in {"neg", "not"} -> AndThen(eval_expr(e[2], env, left), LAMBDA v, s : eval_unary(e[1], v, s))
          [] e[1] \in {"&&", "||"} ->
                AndThen(eval_expr(e[2], env, left), LAMBDA l, s :
                    IF is_truthy(l) = (e[1] = "||") THEN Value(BoolVal(e[1] = "||"), s)
                    ELSE AndThen(eval_expr(e[3], env, s), LAMBDA r, t : Value(BoolVal(is_truthy(r)), t)))
          [] e[1] = "index" -> Pair(eval_index)
          [] e[1] = "call" -> AndThen(eval_args(<<>>, e[3], env, left), LAMBDA args, s : eval_call(e[2], args, s))
          [] OTHER -> Pair(LAMBDA l, r, t : eval_binop(e[1], l, r, t)))

\* The arguments of a call, up to the first that fails.
eval_args(done, args, env, steps) ==
    IF args = <<>> THEN Value(done, steps)
    ELSE AndThen(eval_expr(Head(args), env, steps), LAMBDA v, s : eval_args(Append(done, v), Tail(args), env, s))

\* A run: the environment, the steps left, and how it ended if it has.
Going(env, steps) == [end |-> "none", val |-> <<>>, env |-> env, steps |-> steps]

run_stmt(st, run) ==
    IF run.steps = 0 THEN [run EXCEPT !.end = "error", !.val = "StepBudgetExceeded"]
    ELSE LET r == eval_expr(st[2], run.env, run.steps - 1)
         IN  CASE ~r.ok -> [run EXCEPT !.end = "error", !.val = r.val, !.steps = r.steps]
               [] r.ok /\ st[1] = "let" -> Going((st[3] :> r.val) @@ run.env, r.steps)
               [] r.ok /\ st[1] = "return" -> [run EXCEPT !.end = "return", !.val = r.val, !.steps = r.steps]
               [] r.ok /\ st[1] = "if" ->
                    run_stmts(IF is_truthy(r.val) THEN st[3] ELSE st[4], Going(run.env, r.steps))

run_stmts(stmts, run) ==
    IF stmts = <<>> \/ run.end # "none" THEN run
    ELSE run_stmts(Tail(stmts), run_stmt(Head(stmts), run))

\* execute(): bindings made in a branch outlive it.
executeStatements(stmts) ==
    LET run == run_stmts(stmts, Going(outerContext, STEP_BUDGET))
    IN  IF run.end = "none" THEN [run EXCEPT !.end = "error", !.val = "NoReturnValue"] ELSE run

-----------------------------------------------------------------------------
(* Programs.                                                             *)

Unary == {"neg", "not"}
Binary == {"+", "-", "*", "/", "%", "==", "<", "&&", "||", "index"}

RECURSIVE Size(_, _), Sizes(_, _)

\* Nodes of an expression or a statement: all of them, or those never left out.
Size(e, all) ==
    CASE e[1] \in {"lit", "var"} -> 1
      [] e[1] \in Unary \cup {"let", "return"} -> 1 + Size(e[2], all)
      [] e[1] \in Binary -> 1 + Size(e[2], all) + (IF all \/ e[1] \notin {"&&", "||"} THEN Size(e[3], all) ELSE 0)
      [] e[1] = "field" -> 1 + Size(e[2], all)
      [] e[1] = "call" -> 1 + Sizes(e[3], all)
      [] e[1] = "if" -> 1 + Size(e[2], all) + (IF all THEN Sizes(e[3], all) + Sizes(e[4], all) ELSE 0)
Sizes(s, all) == IF s = <<>> THEN 0 ELSE Size(Head(s), all) + Sizes(Tail(s), all)

EvalInit == exprs = <<>> /\ program = <<>>

Nodes == Sizes(exprs, TRUE) + Sizes(program, TRUE)

\* Takes n expressions off the top and puts one built from them.
Build(n, e) == exprs' = Append(SubSeq(exprs, 1, Len(exprs) - n), e)
Nth(n) == exprs[Len(exprs) - n]

\* A call takes all there is, and no call directly another.
AddExpr ==
    /\ Nodes < MaxNodes
    /\ \/ \E l \in Atoms : Build(0, l)
       \/ Len(exprs) > 0 /\ \E op \in Unary : Build(1, <<op, Nth(0)>>)
       \/ Len(exprs) > 1 /\ \E op \in Binary : Build(2, <<op, Nth(1), Nth(0)>>)
       \/ Len(exprs) > 0 /\ \E f \in {"full", "length"} : Build(1, <<"field", Nth(0), f>>)
       \/ \E f \in DOMAIN builtins \cup {"concat", "max"} :
             /\ exprs # <<>> /\ \A n \in DOMAIN exprs : exprs[n][1] # "call"
             /\ Build(Len(exprs), <<"call", f, exprs>>)
    /\ UNCHANGED program

AddStmt ==
    /\ Len(exprs) = 1 /\ Nodes < MaxNodes
    /\ \/ program' = Append(program, <<"let", Nth(0), "y">>)
       \/ program' = Append(program, <<"return", Nth(0)>>)
       \/ program' = << <<"if", Nth(0), program, <<>> >>>> /\ program # <<>>
    /\ exprs' = <<>>

EvalNext == AddExpr \/ AddStmt
EvalSpec == EvalInit /\ [][EvalNext]_evalvars

-----------------------------------------------------------------------------
(* Properties.                                                           *)

\* What an expression of integers is worth in the integers.
RECURSIVE Exact(_)
Exact(e) ==
    CASE e[1] = "lit" -> e[2][2]
      [] e[1] = "neg" -> -Exact(e[2])
      [] e[1] = "+" -> Exact(e[2]) + Exact(e[3])
      [] e[1] = "-" -> Exact(e[2]) - Exact(e[3])
      [] e[1] = "*" -> Exact(e[2]) * Exact(e[3])
      [] e[1] = "/" -> Quotient(Exact(e[2]), Exact(e[3]))
      [] e[1] = "%" -> Remainder(Exact(e[2]), Exact(e[3]))

RECURSIVE OfIntegers(_)
OfIntegers(e) ==
    \/ e[1] = "lit" /\ as_i128(e[2])
    \/ e[1] = "neg" /\ OfIntegers(e[2])
    \/ e[1] \in {"+", "-", "*", "/", "%"} /\ OfIntegers(e[2]) /\ OfIntegers(e[3])

\* An expression of integers has its exact value or is refused, whatever overflows on
\* the way, as long as nothing divides the smallest integer by -1.
ExactOrRefused ==
    \A n \in DOMAIN exprs : OfIntegers(exprs[n]) =>
        LET r == eval_expr(exprs[n], outerContext, STEP_BUDGET)
        IN  r.ok => r.val = IntVal(Exact(exprs[n]))

\* No evaluation is stopped that has no more nodes than the budget, and one that returned
\* took a step for every node it visited.
BudgetCountsNodes ==
    LET first == CHOOSE n \in DOMAIN program : program[n][1] = "return" /\ \A k \in 1 .. n - 1 : program[k][1] # "return"
    IN  \A run \in {executeStatements(program)} :
          /\ run.val = "StepBudgetExceeded" => Sizes(program, TRUE) > STEP_BUDGET
          /\ run.end = "return" => STEP_BUDGET - run.steps <= Sizes(program, TRUE)
          /\ run.end = "return" /\ (\A n \in DOMAIN program : program[n][1] # "if") =>
                STEP_BUDGET - run.steps >= Sizes(SubSeq(program, 1, first), FALSE)

\* The text of an amount has its value, unless it lies between -1 and 0, where the sign
\* is lost.
AmountKeepsValue ==
    \A e \in {exprs[n] : n \in DOMAIN exprs} : e[1] = "call" /\ e[2] = "format_amount" /\ Len(e[3]) = 2 =>
        LET raw == eval_expr(e[3][1], outerContext, STEP_BUDGET)
            dec == eval_expr(e[3][2], outerContext, STEP_BUDGET)
            text == eval_expr(e, outerContext, STEP_BUDGET)
            unit == 10 ^ dec.val[2]
        IN  text.ok /\ ~(raw.val[2] \in -unit + 1 .. -1) =>
                raw.val[2] = text.val[2][1] * unit + (IF raw.val[2] < 0 THEN -text.val[2][2] ELSE text.val[2][2])
=============================================================================
