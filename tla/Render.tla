-------------------------------- MODULE Render --------------------------------
(***************************************************************************)
(* The template interpreter (internal/render).  An expression is a         *)
(* sequence of tokens: operators, and atoms that stand for literals,       *)
(* names, calls and bracketed groups, which the code skips over by quotes  *)
(* and depth.  The code evaluates while it splits; here evalExpr gives the *)
(* tree it follows and Value the value.  Text is a sequence of words that  *)
(* know how often they were escaped; what filters do to letters is left    *)
(* out, and so are namespaces ({% set a.b = .. %}), the one place where a  *)
(* template changes a value in place.                                      *)
(***************************************************************************)
EXTENDS Integers, Sequences, FiniteSets, SequencesExt, TLC

CONSTANTS
    Trees,     \* expressions to be written down and read back
    Templates, \* the template files: sequences of tags, by name
    Pages,     \* names of templates that handlers render
    Contexts   \* what handlers render them with: a sequence of values by name

VARIABLES
    task,   \* what is asked of the engine
    result  \* what it answered

vars == <<task, result>>

None == [op |-> "none"]
Empty == [x \in {} |-> None]

-----------------------------------------------------------------------------
(* Reading: eval.go splits at the first or at every operator of a level,   *)
(* from the loosest level to the tightest.                                 *)

IsOp(t, o) == t.op = "op" /\ t.v = o
Left(s, i) == SubSeq(s, 1, i - 1)
Right(s, i) == SubSeq(s, i + 1, Len(s))

\* The first place of an operator, 0 for none.
splitTopOp(s, o) == SelectInSeq(s, LAMBDA t : IsOp(t, o))

RECURSIVE splitTop(_, _)
splitTop(s, o) ==
    LET i == splitTopOp(s, o)
    IN IF i = 0 THEN <<s>> ELSE <<Left(s, i)>> \o splitTop(Right(s, i), o)

RECURSIVE evalExpr(_)

evalAtom(s) ==
    IF Len(s) # 1 THEN None
    ELSE IF s[1].op = "group" THEN evalExpr(s[1].s) ELSE s[1]

evalFiltered(s) ==
    FoldLeft(LAMBDA acc, t : [op |-> "filter", a |-> acc, f |-> t.f, args |-> t.args],
             evalAtom(SubSeq(s, 1, 1)), Tail(s))

\* Splits at the first operator of the first kind there is: of two in a row
\* the right one is taken first, where Jinja takes the left one.
RECURSIVE evalMulDiv(_)
evalMulDiv(s) ==
    LET kinds == SelectSeq(<<"//", "/", "*", "%">>, LAMBDA o : splitTopOp(s, o) # 0)
    IN IF kinds = <<>> THEN evalFiltered(s)
       ELSE LET i == splitTopOp(s, kinds[1])
            IN [op |-> kinds[1], a |-> evalMulDiv(Left(s, i)), b |-> evalMulDiv(Right(s, i))]

\* An operator with any number of operands, which one operand does without.
Joined(o, args) == IF Len(args) = 1 THEN args[1] ELSE [op |-> o, args |-> args]
evalConcat(s) ==
    LET parts == splitTop(s, "~")
    IN Joined("~", [i \in DOMAIN parts |-> evalMulDiv(parts[i])])

\* The terms between top-level + and -, from the left.
RECURSIVE splitAddSub(_)
splitAddSub(s) ==
    LET i == SelectInSeq(s, LAMBDA t : IsOp(t, "+") \/ IsOp(t, "-"))
    IN IF i = 0 THEN <<[by |-> "+", term |-> s]>>
       ELSE <<[by |-> "+", term |-> Left(s, i)]>> \o
            [splitAddSub(Right(s, i)) EXCEPT ![1].by = s[i].v]

FoldFromRight(terms) ==
    FoldLeft(LAMBDA acc, t : [op |-> t.by, a |-> t.tree, b |-> acc], terms[1].tree, Tail(terms))
evalAddSubFromRight(s) ==   \* a mutant: a - b - c taken from the right
    LET terms == splitAddSub(s)
    IN FoldFromRight([i \in DOMAIN terms |-> [by |-> terms[i].by, tree |-> evalConcat(terms[i].term)]])
FoldFromLeft(terms) ==
    FoldLeft(LAMBDA acc, t : [op |-> t.by, a |-> acc, b |-> t.tree], terms[1].tree, Tail(terms))
evalAddSub(s) ==
    LET terms == splitAddSub(s)
    IN FoldFromLeft([i \in DOMAIN terms |-> [by |-> terms[i].by, tree |-> evalConcat(terms[i].term)]])

Comparisons == <<"is not", "is", "not in", "in", "==", "!=", ">=", "<=", ">", "<">>

Compared(kinds, trees) ==
    IF kinds = <<>> THEN trees[1] ELSE [op |-> kinds[1], a |-> trees[1], b |-> trees[2]]
evalCompare(s) ==
    LET kinds == SelectSeq(Comparisons, LAMBDA o : splitTopOp(s, o) # 0)
        sides == IF kinds = <<>> THEN <<s>>
                 ELSE LET i == splitTopOp(s, kinds[1]) IN <<Left(s, i), Right(s, i)>>
    IN Compared(kinds, [k \in DOMAIN sides |-> evalAddSub(sides[k])])

RECURSIVE evalNot(_)
evalNot(s) ==
    IF s # <<>> /\ IsOp(s[1], "not") THEN [op |-> "not", a |-> evalNot(Tail(s))]
    ELSE evalCompare(s)

evalAnd(s) ==
    LET parts == splitTop(s, "and")
    IN Joined("and", [i \in DOMAIN parts |-> evalNot(parts[i])])
evalOr(s) ==
    LET parts == splitTop(s, "or")
    IN Joined("or", [i \in DOMAIN parts |-> evalAnd(parts[i])])

Conditional(trees, other) ==
    IF Len(trees) = 1 THEN trees[1] ELSE [op |-> "if", b |-> trees[1], a |-> trees[2], c |-> other]
RECURSIVE evalTernary(_)
evalTernary(s) ==
    LET i == splitTopOp(s, "if")
        r == Right(s, i)
        j == splitTopOp(r, "else")
        parts == IF i = 0 THEN <<s>> ELSE <<Left(s, i), IF j = 0 THEN r ELSE Left(r, j)>>
    IN Conditional([k \in DOMAIN parts |-> evalOr(parts[k])],
                   IF j = 0 THEN None ELSE evalTernary(Right(r, j)))

evalExpr(s) == evalTernary(s)

-----------------------------------------------------------------------------
(* Values (eval.go).  Of numbers there are only whole ones.                *)

Nil == [t |-> "nil"]
Bool(b) == [t |-> "bool", v |-> b]
Num(n) == [t |-> "num", v |-> n]
Text(words, safe) == [t |-> "text", v |-> words, safe |-> safe]
List(s) == [t |-> "list", v |-> s]
Mapping(m) == [t |-> "map", v |-> m]
Word(w) == [word |-> w, data |-> FALSE, escaped |-> 0]

escapeHTML(words) == [i \in DOMAIN words |-> [words[i] EXCEPT !.escaped = @ + 1]]

isFalsey(v) ==
    CASE v.t = "nil" -> TRUE
      [] v.t = "bool" -> ~v.v
      [] v.t = "num" -> v.v = 0
      [] v.t \in {"text", "list"} -> v.v = <<>>
      [] v.t = "map" -> DOMAIN v.v = {}

\* Lists and mappings are written as Python would, their text raw.
RECURSIVE toString(_)
toString(v) ==
    CASE v.t = "nil" -> <<>>
      [] v.t = "bool" -> <<Word(IF v.v THEN "True" ELSE "False")>>
      [] v.t = "num" -> <<Word(ToString(v.v))>>
      [] v.t = "text" -> v.v
      [] v.t = "list" -> FlattenSeq([i \in DOMAIN v.v |-> toString(v.v[i])])
      [] v.t = "map" -> FlattenSeq([i \in 1..Cardinality(DOMAIN v.v) |->
                            toString(v.v[SetToSeq(DOMAIN v.v)[i]])])

renderOutput(v) == IF v.t = "text" /\ v.safe THEN v.v ELSE escapeHTML(toString(v))

toList(v) ==
    CASE v.t = "list" -> v.v
      [] v.t = "map" -> [i \in 1..Cardinality(DOMAIN v.v) |->
                            Text(<<Word(SetToSeq(DOMAIN v.v)[i])>>, FALSE)]
      [] v.t = "nil" -> <<>>
      [] OTHER -> <<v>>

atomKind(v) == IF v.t \in {"nil", "bool", "num"} THEN v.t ELSE "other"
equalValues(a, b) == atomKind(a) = atomKind(b) /\ toString(a) = toString(b)

membership(a, b) ==
    IF b.t = "text" THEN \E i, j \in 1..Len(b.v) + 1 : SubSeq(b.v, i, j - 1) = toString(a)
    ELSE \E i \in DOMAIN toList(b) : equalValues(a, toList(b)[i])

\* Texts are in no order here.
compareOrd(o, a, b) ==
    /\ a.t = "num" /\ b.t = "num"
    /\ \/ o = ">=" /\ a.v >= b.v
       \/ o = "<=" /\ a.v <= b.v
       \/ o = ">" /\ a.v > b.v
       \/ o = "<" /\ a.v < b.v

\* Whatever is added to or concatenated with marked text is text unmarked.
addValuesMarked(a, b) ==
    Text(toString(a) \o toString(b), a.t = "text" /\ a.safe)  \* a mutant: text stays marked
addValues(a, b) ==
    IF a.t = b.t /\ a.t = "num" THEN Num(a.v + b.v)
    ELSE IF a.t = b.t /\ a.t = "list" THEN List(a.v \o b.v)
    ELSE Text(toString(a) \o toString(b), FALSE)

toIntVal(v) == IF v.t = "num" THEN v.v ELSE 0
Arithmetic(o, a, b) ==
    LET x == toIntVal(a)
        y == toIntVal(b)
    IN Num(CASE o = "-" -> x - y [] o = "*" -> x * y
             [] y = 0 -> 0
             [] o \in {"/", "//"} -> x \div y [] o = "%" -> x % y)

isTest(v, test) ==
    CASE test = "none" -> v.t = "nil" [] test = "defined" -> v.t # "nil"
      [] test = "string" -> v.t = "text" /\ ~v.safe [] test = "mapping" -> v.t = "map"
      [] test = "iterable" -> v.t = "list" \/ (v.t = "text" /\ ~v.safe)
      [] OTHER -> ~isFalsey(v)

attrValue(v, name) == IF v.t = "map" /\ name \in DOMAIN v.v THEN v.v[name] ELSE Nil
subscript(v, i) ==
    IF v.t = "list" /\ i.t = "num"
    THEN IF i.v \in 0..Len(v.v) - 1 THEN v.v[i.v + 1] ELSE Nil
    ELSE IF v.t = "map" /\ i.t = "text" /\ Len(i.v) = 1 THEN attrValue(v, i.v[1].word)
    ELSE Nil

\* The bounds of a slice in a sequence of length n, counted from 0.
normSlice(n, from, to) ==
    LET Bound(x) == IF x < 0 THEN x + n ELSE x
        lo == IF Bound(from) < 0 THEN 0 ELSE IF Bound(from) > n THEN n ELSE Bound(from)
        hi == IF Bound(to) > n THEN n ELSE Bound(to)
    IN <<lo, IF hi < lo THEN lo ELSE hi>>
sliceValue(v, from, to) ==
    LET b == normSlice(Len(v.v), from, to)
    IN IF v.t \in {"text", "list"} THEN [v EXCEPT !.v = SubSeq(v.v, b[1] + 1, b[2])]
       ELSE Text(<<>>, FALSE)

\* Filters that mark text as ready for the page.
MarkingFilter(f, v) ==
    Text(IF f = "safe" THEN toString(v) ELSE escapeHTML(toString(v)), TRUE)

\* Marked text has no length: lengthOf has no case for it.
lengthOf(v) ==
    Num(CASE v.t = "text" /\ ~v.safe -> Len(v.v) [] v.t \in {"list", "map"} -> Len(toList(v))
          [] OTHER -> 0)

ListFilter(f, v, args) ==
    LET items == toList(v)
        Keeps(it) == IF Len(args) >= 3
                     THEN equalValues(attrValue(it, args[1].v[1].word), args[3])
                     ELSE ~isFalsey(attrValue(it, args[1].v[1].word))
    IN CASE f \in {"length", "count"} -> lengthOf(v)
         [] f = "list" -> List(items)
         [] f = "first" -> IF items = <<>> THEN Text(<<>>, FALSE) ELSE items[1]
         [] f = "last" -> IF items = <<>> THEN Text(<<>>, FALSE) ELSE Last(items)
         [] f = "join" -> Text(FlattenSeq([i \in DOMAIN items |->
                IF i = 1 \/ args = <<>> THEN toString(items[i])
                ELSE toString(args[1]) \o toString(items[i])]), FALSE)
         [] f = "selectattr" -> List(SelectSeq(items, Keeps))
         [] f = "rejectattr" -> List(SelectSeq(items, LAMBDA it : ~Keeps(it)))

applyFilter(f, v, args) ==
    CASE f \in {"safe", "escape", "tojson"} -> MarkingFilter(f, v)
      [] f = "default" ->
            IF args # <<>> /\ (v.t = "nil" \/ (Len(args) >= 2 /\ ~isFalsey(args[2]) /\ isFalsey(v)))
            THEN args[1] ELSE v
      [] f \in {"length", "count", "list", "first", "last", "join", "selectattr", "rejectattr"} ->
            ListFilter(f, v, args)
      [] f = "int" -> Num(IF v.t = "num" THEN v.v ELSE IF args = <<>> THEN 0 ELSE toIntVal(args[1]))
      [] OTHER -> Text(toString(v), FALSE)    \* lower, upper, trim, title, truncate, ..

-----------------------------------------------------------------------------
(* Parsing (parse.go).  p is the parser: the tags, the position, and what  *)
(* the template extends, defines and imports.                              *)

At(p) == p.toks[p.pos]
Step(p) == [p EXCEPT !.pos = @ + 1]
Nested(q, node) == [p |-> Step(q.p), node |-> node]

RECURSIVE parseUntil(_, _)
RECURSIVE parseIf(_)

parseBody(p, stop) == parseUntil(Step(p), {stop})

\* {% for %}, which may have an {% else %} for no items at all.
parseFor(p) ==
    LET q == parseUntil(Step(p), {"else", "endfor"})
        r == parseBody(q.p, "endfor")
        Node(other) == [n |-> "for", var |-> At(p).var, e |-> evalExpr(At(p).e),
                        body |-> q.nodes, other |-> other]
    IN IF At(q.p).tag = "else" THEN Nested(r, Node(r.nodes)) ELSE Nested(q, Node(<<>>))

\* {% if %} and {% elif %}: the branches from here on.
parseIf(p) ==
    LET q == parseUntil(Step(p), {"elif", "else", "endif"})
        first == <<[cond |-> evalExpr(At(p).e), body |-> q.nodes]>>
        r == parseBody(q.p, "endif")
    IN CASE At(q.p).tag = "elif" ->
              LET rest == parseIf(q.p)
              IN [rest EXCEPT !.node.branches = first \o @]
         [] At(q.p).tag = "else" ->
              Nested(r, [n |-> "if", branches |-> Append(first, [cond |-> None, body |-> r.nodes])])
         [] At(q.p).tag = "endif" -> Nested(q, [n |-> "if", branches |-> first])

parseBlock(p) ==
    LET q == parseBody(p, "endblock")
        b == At(p).name
    IN [p |-> [Step(q.p) EXCEPT !.blocks = (b :> q.nodes) @@ @],
        node |-> [n |-> "block", name |-> b, body |-> q.nodes]]

parseMacro(p) ==
    LET q == parseBody(p, "endmacro")
    IN [p |-> [Step(q.p) EXCEPT !.macros =
                  (At(p).name :> [params |-> At(p).params, body |-> q.nodes]) @@ @],
        node |-> None]

parseCall(p) ==
    LET q == parseBody(p, "endcall")
    IN Nested(q, [n |-> "call", params |-> At(p).params, e |-> evalExpr(At(p).e), body |-> q.nodes])

parseWith(p) ==
    LET q == parseBody(p, "endwith")
    IN Nested(q, [n |-> "with", var |-> At(p).var, e |-> evalExpr(At(p).e), body |-> q.nodes])

parseTag(p) ==
    LET t == At(p)
        Plain(node) == [p |-> Step(p), node |-> node]
        q == parseBody(p, "endset")
    IN CASE t.tag = "text" -> Plain([n |-> "text", words |-> t.words])
         [] t.tag = "out" -> Plain([n |-> "out", e |-> evalExpr(t.e)])
         [] t.tag = "set" -> Plain([n |-> "set", var |-> t.var, e |-> evalExpr(t.e)])
         [] t.tag = "capture" -> Nested(q, [n |-> "capture", var |-> t.var, body |-> q.nodes])
         [] t.tag = "include" -> Plain([n |-> "include", name |-> t.name])
         [] t.tag = "extends" -> [p |-> [Step(p) EXCEPT !.extends = t.name], node |-> None]
         [] t.tag = "from" -> [p |-> [Step(p) EXCEPT !.imports = Append(@, t)], node |-> None]
         [] t.tag = "if" -> parseIf(p)
         [] t.tag = "for" -> parseFor(p)
         [] t.tag = "with" -> parseWith(p)
         [] t.tag = "block" -> parseBlock(p)
         [] t.tag = "macro" -> parseMacro(p)
         [] t.tag = "call" -> parseCall(p)

Continue(one, stops) ==
    [parseUntil(one.p, stops) EXCEPT !.nodes = IF one.node = None THEN @ ELSE <<one.node>> \o @]
parseUntil(p, stops) ==
    IF p.pos > Len(p.toks) \/ At(p).tag \in stops THEN [p |-> p, nodes |-> <<>>]
    ELSE Continue(parseTag(p), stops)

Parsed(q) ==
    [nodes |-> q.nodes, extends |-> q.p.extends, blocks |-> q.p.blocks,
     macros |-> q.p.macros, imports |-> q.p.imports]
parse(toks) ==
    Parsed(parseUntil([toks |-> toks, pos |-> 1, extends |-> "", blocks |-> Empty,
                       macros |-> Empty, imports |-> <<>>], {}))

load == [name \in DOMAIN Templates |-> parse(Templates[name])]

-----------------------------------------------------------------------------
(* Rendering (engine.go).  env holds the variables in sight; a new scope   *)
(* is a copy that is dropped at its end.  rc is what a rendering knows:    *)
(* the bodies of each block from the root on, the macros, and caller(), of *)
(* which there is one at a time: a macro that asks for it in the body of a *)
(* {% call %} finds this body again, and no end if it does not stop.       *)

lookup(env, name) == IF name \in DOMAIN env THEN env[name] ELSE Nil
Bind(env, name, v) == (name :> v) @@ env
bindLoopVars(env, var, i, items) ==
    Bind(Bind(env, var, items[i]), "loop",
         Mapping([index |-> Num(i), first |-> Bool(i = 1), last |-> Bool(i = Len(items))]))

RECURSIVE Value(_, _, _)
RECURSIVE renderNodes(_, _, _)

Marked(out) == Text(out, TRUE)
Output(nodes, env, rc) == renderNodes(nodes, env, rc).out

\* {{ caller(..) }}: the body of the {% call %}, in the scope it stands in.
Caller(c, args, rc) ==
    LET given == 1..(IF Len(args) < Len(c.params) THEN Len(args) ELSE Len(c.params))
    IN Marked(Output(c.body,
           FoldLeft(LAMBDA env, i : Bind(env, c.params[i], args[i]), c.env, SetToSeq(given)), rc))

\* A macro sees its parameters only, each from its place, its name or its default.
invokeMacro(m, args, kw, env, rc) ==
    LET Param(i) ==
            LET p == m.params[i]
            IN IF p.name \in DOMAIN kw THEN kw[p.name]
               ELSE IF i <= Len(args) THEN args[i]
               ELSE IF p.default # None THEN Value(p.default, env, rc)
               ELSE Text(<<>>, FALSE)
        bound == FoldLeft(LAMBDA e, i : Bind(e, m.params[i].name, Param(i)), kw,
                          [i \in DOMAIN m.params |-> i])
    IN Marked(Output(m.body, bound, rc))

callFunc(name, args, kw, env, rc) ==
    IF name \in DOMAIN rc.macros THEN invokeMacro(rc.macros[name], args, kw, env, rc)
    ELSE IF name = "caller" /\ rc.caller # None THEN Caller(rc.caller, args, rc)
    ELSE Nil    \* url_for and the other functions of the server

callMethod(v, name, args) ==
    CASE name = "get" /\ v.t = "map" ->
            LET key == args[1].v[1].word
            IN IF key \in DOMAIN v.v THEN v.v[key] ELSE IF Len(args) > 1 THEN args[2] ELSE Nil
      [] name = "keys" -> List(toList(v))
      [] name = "values" -> List([i \in DOMAIN toList(v) |-> subscript(v, toList(v)[i])])
      [] name = "items" -> List([i \in DOMAIN toList(v) |->
                               List(<<toList(v)[i], subscript(v, toList(v)[i])>>)])
      [] name = "startswith" -> Bool(IsPrefix(toString(args[1]), toString(v)))
      [] name = "endswith" -> Bool(IsSuffix(toString(args[1]), toString(v)))
      [] OTHER -> Text(toString(v), FALSE)   \* lower, upper, strip, replace, title, format

Value(e, env, rc) ==
    LET V(x) == Value(x, env, rc)
        Args == [i \in DOMAIN e.args |-> V(e.args[i])]
        Decides(o) == {i \in DOMAIN e.args : isFalsey(V(e.args[i])) = (o = "and")}
    IN CASE e.op = "none" -> Nil
         [] e.op = "lit" -> e.v
         [] e.op = "name" ->
              IF e.path = <<"caller">> /\ rc.caller # None THEN Bool(TRUE)  \* a function
              ELSE FoldLeft(attrValue, lookup(env, e.path[1]), Tail(e.path))
         [] e.op = "super" -> lookup(env, "__super__")
         [] e.op = "list" -> List(Args)
         [] e.op = "index" -> subscript(V(e.a), V(e.i))
         [] e.op = "slice" -> sliceValue(V(e.a), e.from, e.to)
         [] e.op = "call" -> callFunc(e.name, Args, [k \in DOMAIN e.kw |-> V(e.kw[k])], env, rc)
         [] e.op = "method" -> callMethod(V(e.a), e.name, Args)
         [] e.op = "filter" -> applyFilter(e.f, V(e.a), Args)
         [] e.op = "if" -> IF ~isFalsey(V(e.a)) THEN V(e.b)
                           ELSE IF e.c = None THEN Text(<<>>, FALSE) ELSE V(e.c)
         [] e.op \in {"or", "and"} ->
              IF Decides(e.op) = {} THEN V(Last(e.args))
              ELSE V(e.args[CHOOSE i \in Decides(e.op) : \A j \in Decides(e.op) : i <= j])
         [] e.op = "not" -> Bool(isFalsey(V(e.a)))
         [] e.op = "is" -> Bool(isTest(V(e.a), e.b.path[1]))
         [] e.op = "is not" -> Bool(~isTest(V(e.a), e.b.path[1]))
         [] e.op = "in" -> Bool(membership(V(e.a), V(e.b)))
         [] e.op = "not in" -> Bool(~membership(V(e.a), V(e.b)))
         [] e.op = "==" -> Bool(equalValues(V(e.a), V(e.b)))
         [] e.op = "!=" -> Bool(~equalValues(V(e.a), V(e.b)))
         [] e.op \in {">=", "<=", ">", "<"} -> Bool(compareOrd(e.op, V(e.a), V(e.b)))
         [] e.op = "+" -> addValues(V(e.a), V(e.b))
         [] e.op = "~" -> Text(FlattenSeq([i \in DOMAIN Args |-> toString(Args[i])]), FALSE)
         [] OTHER -> Arithmetic(e.op, V(e.a), V(e.b))

\* The body at a place of the block's chain, super() being the one before it,
\* rendered first and whether or not it is asked for.
RECURSIVE renderBlockAt(_, _, _, _)
renderBlockAt(chain, i, env, rc) ==
    LET parent == IF i = 1 THEN <<>> ELSE renderBlockAt(chain, i - 1, env, rc)
    IN Output(chain[i], Bind(env, "__super__", Marked(parent)), rc)

renderBlock(node, env, rc) ==
    IF node.name \notin DOMAIN rc.chains THEN Output(node.body, env, rc)
    ELSE renderBlockAt(rc.chains[node.name], Len(rc.chains[node.name]), env, rc)

renderFor(node, env, rc) ==
    LET items == toList(Value(node.e, env, rc))
    IN IF items = <<>> THEN Output(node.other, env, rc)
       ELSE FlattenSeq([i \in DOMAIN items |->
                Output(node.body, bindLoopVars(env, node.var, i, items), rc)])

renderCall(node, env, rc) ==
    LET c == [params |-> node.params, body |-> node.body, env |-> env]
    IN renderOutput(Value(node.e, env, [rc EXCEPT !.caller = c]))

RECURSIVE ifBranch(_, _, _)
ifBranch(branches, env, rc) ==
    IF branches = <<>> THEN [out |-> <<>>, env |-> env]
    ELSE IF branches[1].cond = None \/ ~isFalsey(Value(branches[1].cond, env, rc))
    THEN renderNodes(branches[1].body, env, rc)
    ELSE ifBranch(Tail(branches), env, rc)

\* One node: what it writes, and the variables after it.
renderNode(node, env, rc) ==
    LET Writes(out) == [out |-> out, env |-> env]
        Sets(v) == [out |-> <<>>, env |-> Bind(env, node.var, v)]
    IN CASE node.n = "text" -> Writes(node.words)
         [] node.n = "out" -> Writes(renderOutput(Value(node.e, env, rc)))
         [] node.n = "set" -> Sets(Value(node.e, env, rc))
         [] node.n = "capture" ->
              LET inner == renderNodes(node.body, env, rc)
              IN [out |-> <<>>, env |-> Bind(inner.env, node.var, Marked(inner.out))]
         [] node.n = "if" -> ifBranch(node.branches, env, rc)
         [] node.n = "for" -> Writes(renderFor(node, env, rc))
         [] node.n = "call" -> Writes(renderCall(node, env, rc))
         [] node.n = "with" ->
              Writes(Output(node.body, Bind(env, node.var, Value(node.e, env, rc)), rc))
         [] node.n = "block" -> Writes(renderBlock(node, env, rc))
         [] node.n = "include" -> Writes(Output(rc.files[node.name].nodes, env, rc))

renderNodes(nodes, env, rc) ==
    FoldLeft(LAMBDA acc, node : LET one == renderNode(node, acc.env, rc)
                                IN [out |-> acc.out \o one.out, env |-> one.env],
             [out |-> <<>>, env |-> env], nodes)

\* The chain of templates, from the one that extends no other.
RECURSIVE Chain(_, _)
Chain(files, name) ==
    IF files[name].extends = "" THEN <<name>> ELSE Append(Chain(files, files[name].extends), name)

blockChains(chain) ==
    [b \in UNION {DOMAIN chain[i].blocks : i \in DOMAIN chain} |->
        FoldLeft(LAMBDA acc, file : IF b \in DOMAIN file.blocks
                                    THEN Append(acc, file.blocks[b]) ELSE acc,
                 <<>>, chain)]

\* A template's own macros replace earlier ones, an import those it names; the
\* other macros of the imported file come along unless there is one already.
collectMacros(files, chain) ==
    LET Import(acc, imp) ==
            LET ms == files[imp.name].macros
            IN [m \in imp.names \intersect DOMAIN ms |-> ms[m]] @@ acc @@ ms
        Own(acc, file) == FoldLeft(Import, file.macros @@ acc, file.imports)
    IN FoldLeft(Own, Empty, chain)

renderChain(files, chain, context) ==
    Output(chain[1].nodes, context,
           [files |-> files, macros |-> collectMacros(files, chain), chains |-> blockChains(chain),
            caller |-> None])
renderFile(files, page, context) ==
    LET names == Chain(files, page)
    IN renderChain(files, [i \in DOMAIN names |-> files[names[i]]], context)
RenderPage(page, context) == renderFile(load, page, context)

-----------------------------------------------------------------------------
(* The engine's work: a page for a request, or an expression of one.       *)

Init == task = None /\ result = <<>>

Show(page, context) ==
    /\ task = None
    /\ task' = [op |-> "page", page |-> page]
    /\ result' = RenderPage(page, context)

-----------------------------------------------------------------------------
(* How Jinja's grammar has an expression written: a part stands in         *)
(* brackets when it binds looser than where it stands.                     *)

Looseness == <<{"if"}, {"or"}, {"and"}, {"not"}, ToSet(Comparisons), {"+", "-"}, {"~"},
               {"*", "/", "//", "%"}, {"filter"}>>
Level(e) ==
    IF \E n \in DOMAIN Looseness : e.op \in Looseness[n]
    THEN CHOOSE n \in DOMAIN Looseness : e.op \in Looseness[n] ELSE 10

Op(o) == <<[op |-> "op", v |-> o]>>

RECURSIVE WriteDown(_, _)
WriteDown(e, level) ==
    LET n == Level(e)
        Each(args) == [i \in DOMAIN args |-> IF i = 1 THEN WriteDown(args[i], n + 1)
                                             ELSE Op(e.op) \o WriteDown(args[i], n + 1)]
        s == CASE n = 1 -> WriteDown(e.b, 2) \o Op("if") \o WriteDown(e.a, 2) \o
                           (IF e.c = None THEN <<>> ELSE Op("else") \o WriteDown(e.c, 1))
               [] n \in {2, 3, 7} -> FlattenSeq(Each(e.args))
               [] n = 4 -> Op("not") \o WriteDown(e.a, 4)
               [] n = 5 -> WriteDown(e.a, 6) \o Op(e.op) \o WriteDown(e.b, 6)
               [] n \in {6, 8} -> WriteDown(e.a, n) \o Op(e.op) \o WriteDown(e.b, n + 1)
               [] n = 9 -> Append(WriteDown(e.a, 9), [op |-> "filter", f |-> e.f, args |-> e.args])
               [] n = 10 -> <<e>>
    IN IF n < level THEN <<[op |-> "group", s |-> s]>> ELSE s

Read(e) ==
    /\ task = None
    /\ task' = [op |-> "expr", e |-> e]
    /\ result' = evalExpr(WriteDown(e, 1))

Next ==
    \/ \E page \in Pages, i \in DOMAIN Contexts : Show(page, Contexts[i])
    \/ \E e \in Trees : Read(e)

Spec == Init /\ [][Next]_vars

-----------------------------------------------------------------------------
\* Two of * / // % in a row, which the code takes from the right.
RECURSIVE Chained(_)
Chained(e) ==
    CASE Level(e) = 8 -> Level(e.a) = 8 \/ Chained(e.a) \/ Chained(e.b)
      [] Level(e) \in {5, 6} -> Chained(e.a) \/ Chained(e.b)
      [] Level(e) \in {2, 3, 7} -> \E i \in DOMAIN e.args : Chained(e.args[i])
      [] Level(e) \in {4, 9} -> Chained(e.a)
      [] Level(e) = 1 -> Chained(e.a) \/ Chained(e.b) \/ Chained(e.c)
      [] OTHER -> FALSE

\* An expression written by Jinja's grammar, with no more brackets than it asks
\* for, is read as what it says (evalTernary down to evalFiltered), unless it has
\* two of * / // % in a row without brackets.
ReadAsWritten == task.op = "expr" /\ ~Chained(task.e) => result = task.e

\* Whatever way a value takes to the page - captured, concatenated, handed to a
\* macro or its caller, through super() or a filter - its text was escaped, once
\* at least, on pages that do not mark data as safe themselves.
DataIsEscaped ==
    task.op = "page" => \A i \in DOMAIN result : result[i].data => result[i].escaped > 0
=============================================================================
