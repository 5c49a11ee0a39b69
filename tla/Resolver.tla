------------------------------ MODULE Resolver ------------------------------
(***************************************************************************)
(* The resolver contract, which keeps nothing: validation of a job,        *)
(* hydration of its variables and messages, resolution of conditions, and  *)
(* update functions.                                                       *)
(*                                                                         *)
(* A result is a set: of the value, or of nothing where the code returns   *)
(* an error or panics.  A text is a sequence of tokens: numbers, truth     *)
(* values, words, references $warp.variable.{name}, and the base64 of      *)
(* other texts; None stands for an Option that is not there, no text but   *)
(* that of a static variable being empty.                                  *)
(***************************************************************************)
EXTENDS JsonPath

CONSTANTS
  IntMax,      \* i128::MAX
  AmountMax,   \* Uint128::MAX
  UintMax,     \* Uint256::MAX
  DecimalMax,  \* Decimal256::MAX, in units of one
  Scale,       \* units in a decimal of one
  Rest,        \* what a name leaves of a longer one that begins with it
  Values,      \* numeric values jobs are written with, and those nested in them
  Conditions,  \* conditions jobs are written with, and those nested in them
  Depth(_)     \* how deep a value or a condition is nested

ASSUME NumbersAssumption ==
  /\ Scale \in Nat \ {0}
  /\ IntMax \in Nat /\ DecimalMax \in Nat
  /\ AmountMax \in Nat /\ UintMax \in Nat
  /\ UintMax >= AmountMax /\ AmountMax >= IntMax

NumericKinds == {"Uint", "Int", "Decimal"}
ValueFns == {"Abs", "Neg", "Floor", "Ceil", "Sqrt"}
ValueOps == {"Add", "Sub", "Mul", "Div", "Mod"}
NumOps == {"Eq", "Neq", "Lt", "Lte", "Gt", "Gte"}
StringOps == {"Eq", "Neq", "StartsWith", "EndsWith", "Contains"}

\* Values and conditions are finite trees.
ASSUME ValuesAssumption ==
  \A v \in Values :
    /\ v.is \in {"Simple", "Ref", "Env", "Fn", "Expr"} /\ Depth(v) \in Nat
    /\ v.is \in {"Fn", "Expr"} => v.right \in Values /\ Depth(v.right) < Depth(v)
    /\ v.is = "Fn" => v.op \in ValueFns
    /\ v.is = "Expr" => v.op \in ValueOps /\ v.left \in Values /\ Depth(v.left) < Depth(v)

ASSUME ConditionsAssumption ==
  \A c \in Conditions :
    /\ c.is \in {"And", "Or", "Not", "Expr"} /\ Depth(c) \in Nat
    /\ c.is \in {"And", "Or"} =>
         /\ c.conds \in Seq(Conditions)
         /\ \A i \in DOMAIN c.conds : Depth(c.conds[i]) < Depth(c)
    /\ c.is = "Not" => c.cond \in Conditions /\ Depth(c.cond) < Depth(c)
    /\ c.is = "Expr" =>
         /\ c.expr.of \in NumericKinds \cup {"String", "Time", "BlockHeight", "Bool"}
         /\ c.expr.of \in NumericKinds =>
              c.expr.op \in NumOps /\ {c.expr.left, c.expr.right} \subseteq Values
         /\ c.expr.of = "String" => c.expr.op \in StringOps
         /\ c.expr.of \in {"Time", "BlockHeight"} => c.expr.op \in NumOps

Dec(units) == [dec |-> units] \* a decimal with a fraction
Truth(b) == [bool |-> b]
Encoded(text) == [base64 |-> text]
Ref(name) == [ref |-> name]

None == <<>>

-----------------------------------------------------------------------------
(* Numbers *)

Numbers(kind) ==
  CASE kind = "Uint" -> 0..UintMax
    [] kind = "Amount" -> 0..AmountMax
    [] kind \in {"Int", "Timestamp"} -> (-IntMax - 1)..IntMax
    [] kind = "Decimal" -> 0..DecimalMax

InRange(kind, results) == {n \in results : n \in Numbers(kind)}

\* from_str of the kind.  A whole decimal reads as an integer does.
Parse(kind, text) ==
  IF Len(text) # 1 THEN {}
  ELSE LET token == text[1] IN
    IF kind = "Bool" THEN {b \in BOOLEAN : token = Truth(b)}
    ELSE IF DOMAIN token = {"num"}
         THEN InRange(kind, {IF kind = "Decimal" THEN token.num * Scale ELSE token.num})
    ELSE IF DOMAIN token = {"dec"} /\ kind = "Decimal" THEN InRange(kind, {token.dec})
    ELSE {}

\* to_string of the kind.
Format(kind, n) ==
  CASE kind = "Bool" -> <<Truth(n)>>
    [] kind = "Decimal" -> IF n % Scale = 0 THEN <<Num(n \div Scale)>> ELSE <<Dec(n)>>
    [] OTHER -> <<Num(n)>>

Magnitude(n) == IF n < 0 THEN -n ELSE n

\* Division as the machine does it, towards zero.
Quotient(l, r) ==
  LET n == Magnitude(l) \div Magnitude(r) IN IF (l < 0) = (r < 0) THEN n ELSE -n

\* The checked operations, but for the range of the result.  A remainder fails
\* where the quotient overflows.
Apply(kind, op, l, r) ==
  CASE op = "Add" -> {l + r}
    [] op = "Sub" -> {l - r}
    [] op = "Mul" -> {IF kind = "Decimal" THEN (l * r) \div Scale ELSE l * r}
    [] op = "Div" -> IF r = 0 THEN {}
                     ELSE {Quotient(IF kind = "Decimal" THEN l * Scale ELSE l, r)}
    [] op = "Mod" -> IF r = 0 \/ (kind = "Int" /\ Quotient(l, r) \notin Numbers(kind)) THEN {}
                     ELSE {l - r * Quotient(l, r)}

\* Functions of integers and decimals; the negation of a decimal takes one
\* from zero and always fails, the magnitude of the least integer panics.
ApplyFn(kind, op, n) ==
  CASE op = "Abs" -> {Magnitude(n)}
    [] op = "Neg" -> IF kind = "Int" THEN {-n} ELSE {}
    [] op = "Floor" -> {n - (n % Scale)}
    [] op = "Ceil" -> {n + ((-n) % Scale)}
    [] op = "Sqrt" -> {CHOOSE s \in 0..(n + Scale) :
                           s * s <= n * Scale /\ (s + 1) * (s + 1) > n * Scale}

HasValue(var) == var.is = "Static" \/ var.value # None

\* get_var and its value, of the variables that are known.
ValueOf(name, known) == {v.value : v \in {v \in known : v.name = name /\ HasValue(v)}}

Referenced(kind, name, known) == UNION {Parse(kind, text) : text \in ValueOf(name, known)}

\* What a value comes to, given what those nested in it come to.
NumValue(kind, v, nested, known, env) ==
  CASE v.is = "Simple" -> {v.value}
    [] v.is = "Ref" -> Referenced(kind, v.name, known)
    [] v.is = "Env" -> IF kind = "Uint" THEN {env[v.of]} ELSE {}
    [] v.is = "Fn" -> IF kind = "Uint" THEN {}
                      ELSE UNION {ApplyFn(kind, v.op, n) : n \in nested[v.right]}
    [] v.is = "Expr" -> UNION {Apply(kind, v.op, l, r) :
                                 l \in nested[v.left], r \in nested[v.right]}

\* resolve_num_value_uint, _int and _decimal, of every value.
NumValues(kind, known, env) ==
  LET Value[v \in Values] == InRange(kind, NumValue(kind, v, Value, known, env)) IN Value

-----------------------------------------------------------------------------
(* Conditions *)

Compare(op, l, r) ==
  CASE op = "Eq" -> l = r  [] op = "Neq" -> l # r
    [] op = "Lt" -> l < r  [] op = "Lte" -> l <= r
    [] op = "Gt" -> l > r  [] op = "Gte" -> l >= r

\* Texts are compared token by token.
CompareText(op, l, r) ==
  CASE op = "Eq" -> l = r  [] op = "Neq" -> l # r
    [] op = "StartsWith" -> IsPrefix(r, l)
    [] op = "EndsWith" -> IsSuffix(r, l)
    [] op = "Contains" -> \E from, to \in 0..Len(l) : SubSeq(l, from + 1, to) = r

TextValue(v, known) == IF v.is = "Text" THEN {v.text} ELSE ValueOf(v.name, known)

ResolveExpr(e, known, env) ==
  CASE e.of \in NumericKinds ->
         LET value == NumValues(e.of, known, env) IN
         {Compare(e.op, l, r) : l \in value[e.left], r \in value[e.right]}
    [] e.of = "String" ->
         {CompareText(e.op, l, r) : l \in TextValue(e.left, known), r \in TextValue(e.right, known)}
    [] e.of \in {"Time", "BlockHeight"} -> {Compare(e.op, env[e.of], e.comparator)}
    [] e.of = "Bool" -> Referenced("Bool", e.name, known)

\* From left to right, up to the first that is not b, which decides or fails.
FirstOther(b, results) ==
  LET others == {i \in DOMAIN results : results[i] # {b}} IN
  IF others = {} THEN {b} ELSE results[Min(others)]

\* Whether a condition holds, given whether those nested in it do.
Holds(c, nested, known, env) ==
  LET results == [i \in DOMAIN c.conds |-> nested[c.conds[i]]] IN
  CASE c.is = "And" -> FirstOther(TRUE, results)
    [] c.is = "Or" -> FirstOther(FALSE, results)
    [] c.is = "Not" -> {~b : b \in nested[c.cond]}
    [] c.is = "Expr" -> ResolveExpr(c.expr, known, env)

\* Variant: what cannot be resolved is false.
ResolveOrFalse(cond, known, env) ==
  LET Resolved[c \in Conditions] ==
        LET r == Holds(c, Resolved, known, env) IN IF r = {} THEN {FALSE} ELSE r
  IN Resolved[cond]

ResolveCond(cond, known, env) ==
  LET Resolved[c \in Conditions] == Holds(c, Resolved, known, env) IN Resolved[cond]

-----------------------------------------------------------------------------
(* Hydration *)

\* What is put for a variable, but for the quotes of the kinds that have them.
Replacement(var) == IF var.encode THEN <<Encoded(var.value)>> ELSE var.value

\* Replaces every reference that begins with the variable's name.
ReplaceIn(text, var) ==
  FlattenSeq([i \in DOMAIN text |->
    LET token == text[i] IN
    IF DOMAIN token # {"ref"} THEN <<token>>
    ELSE IF token.ref = var.name THEN Replacement(var)
    ELSE IF <<var.name, token.ref>> \in DOMAIN Rest
         THEN Append(Replacement(var), Rest[<<var.name, token.ref>>])
    ELSE <<token>>])

\* replace_in_string: one variable after the other.
ReplaceInString(text, vars) == FoldLeft(ReplaceIn, text, vars)

\* replace_in_struct: only a quoted string that is a reference and no more.
ReplaceWhole(text, vars) ==
  FoldLeft(LAMBDA t, v : IF t = <<Ref(v.name)>> THEN Replacement(v) ELSE t, text, vars)

\* The message of a query is a structure, in base64 or not; the address of the
\* contract is replaced as texts are.
ReplaceReferences(expr, vars) ==
  [expr EXCEPT !.contract_addr = ReplaceInString(@, vars), !.msg = ReplaceWhole(@, vars)]

\* What the selector finds in the answer, as the kind of the variable wants it.
\* A Uint has to be a JSON string: a number has no string() and is refused
\* before the second attempt is made.
Answered(var, answer) ==
  LET texts == {"String", "Asset", "Json"}
      wanted == CASE var.kind \in texts \cup {"Uint", "Amount", "Decimal"} -> "string"
                  [] var.kind = "Bool" -> "bool"
                  [] OTHER -> "number"
      kind == IF var.kind = "Amount" THEN "Uint" ELSE var.kind
      scalars == {r \in ResolvePath(answer, var.init_fn.selector) : r.json = wanted}
  IN UNION {IF var.kind \in texts THEN {r.text}
            ELSE {Format(kind, n) : n \in Parse(kind, r.text)} : r \in scalars}

\* One variable, given the hydrated ones before it.  Inputs are a function of
\* names to texts, or not given.
HydrateVar(var, before, inputs, env) ==
  CASE var.is = "Static" -> {[var EXCEPT !.value = ReplaceInString(@, before)]}
    [] var.is = "External" ->
         IF ~var.reinitialize /\ var.value # None THEN {var}
         ELSE IF inputs = None THEN IF var.value = None THEN {} ELSE {var}
         ELSE {[var EXCEPT !.value = inputs[1][name]] : name \in {var.name} \cap DOMAIN inputs[1]}
    [] var.is = "Query" ->
         IF ~var.reinitialize /\ var.value # None THEN {var}
         ELSE LET expr == ReplaceReferences(var.init_fn, before)
                  query == <<expr.contract_addr, expr.msg>>
              IN {[var EXCEPT !.init_fn = expr, !.value = text] :
                    text \in UNION {Answered(var, env.answers[q]) :
                                      q \in {query} \cap DOMAIN env.answers}}

\* Variant: variables are replaced by what is stored of them.
HydrateFromStored(vars, inputs, env) ==
  LET one == [i \in DOMAIN vars |-> HydrateVar(vars[i], SubSeq(vars, 1, i - 1), inputs, env)] IN
  IF \E i \in DOMAIN vars : one[i] = {} THEN {}
  ELSE {[i \in DOMAIN vars |-> CHOOSE v \in one[i] : TRUE]}

\* In the order of the vector.
HydrateVars(vars, inputs, env) ==
  LET Hydrated[n \in 0..Len(vars)] ==
        IF n = 0 THEN {<<>>}
        ELSE UNION {{Append(before, v) : v \in HydrateVar(vars[n], before, inputs, env)} :
                      before \in Hydrated[n - 1]}
  IN Hydrated[Len(vars)]

HasRef(text) == \E i \in DOMAIN text : DOMAIN text[i] = {"ref"}

\* A value that still holds a reference is refused, used or not.  Whether the text
\* is still a message after the replacement is not modelled: MsgsValid has refused
\* the kinds that would not be put between quotes.
HydrateMsgs(msgs, vars) ==
  IF \E i \in DOMAIN vars : ~HasValue(vars[i]) \/ HasRef(Replacement(vars[i])) THEN {}
  ELSE {[i \in DOMAIN msgs |-> ReplaceWhole(msgs[i], vars)]}

-----------------------------------------------------------------------------
(* Update functions *)

\* Variant: the kind of the variable does not matter.
AnyKind(var, fn) == TRUE

\* A function of timestamps, too, wants a variable of kind Int.
KindMatches(var, fn) ==
  var.kind = IF fn.of \in {"Timestamp", "BlockHeight"} THEN "Int" ELSE fn.of

UpdatedValue(fn, known, env) ==
  IF fn.of = "Bool" THEN {Format("Bool", b) : b \in Referenced("Bool", fn.name, known)}
  ELSE LET kind == IF fn.of \in {"Timestamp", "BlockHeight"} THEN "Int" ELSE fn.of IN
       {Format(kind, n) : n \in NumValues(kind, known, env)[fn.value]}

\* update_fn is a function of the statuses that have one; None is the empty one,
\* and an update_fn without any is not told apart from it.
UpdateVar(var, known, status, env) ==
  IF status \notin DOMAIN var.update_fn THEN {var}
  ELSE LET fn == var.update_fn[status] IN
       IF ~KindMatches(var, fn) THEN {}
       ELSE {[var EXCEPT !.value = text] : text \in UpdatedValue(fn, known, env)}

\* Variant: each function sees what those before it have done.
ApplyInTurn(vars, status, env) ==
  FoldLeft(LAMBDA results, i :
             UNION {{[done EXCEPT ![i] = v] : v \in UpdateVar(done[i], Range(done), status, env)} :
                      done \in results},
           {vars}, [i \in DOMAIN vars |-> i])

\* All functions see the variables as they were.
ApplyVarFn(vars, status, env) ==
  LET updated == [i \in DOMAIN vars |-> UpdateVar(vars[i], Range(vars), status, env)] IN
  IF \E i \in DOMAIN vars : updated[i] = {} THEN {}
  ELSE {[i \in DOMAIN vars |-> CHOOSE v \in updated[i] : TRUE]}

-----------------------------------------------------------------------------
(* Validation *)

VarValid(var) ==
  /\ var.is # "Static" /\ var.reinitialize => DOMAIN var.update_fn = {}
  /\ HasValue(var) =>
       CASE var.kind \in {"String", "Json"} -> TRUE
         [] var.kind = "Asset" -> var.value # <<>>
         [] OTHER -> Parse(var.kind, var.value) # {}

VarsValid(vars) == \A i \in DOMAIN vars : VarValid(vars[i])

HasDuplicates(vars) == \E i, j \in DOMAIN vars : i # j /\ vars[i].name = vars[j].name

\* string_vars_in_vector: a name is known if it begins with that of a variable.
Known(name, vars) ==
  \E i \in DOMAIN vars : vars[i].name = name \/ <<vars[i].name, name>> \in DOMAIN Rest

TextRefs(text) == {text[i].ref : i \in {i \in DOMAIN text : DOMAIN text[i] = {"ref"}}}

ValueRefs[v \in Values] ==
  CASE v.is = "Ref" -> {v.name}
    [] v.is = "Fn" -> ValueRefs[v.right]
    [] v.is = "Expr" -> ValueRefs[v.left] \cup ValueRefs[v.right]
    [] OTHER -> {}

TextValueRefs(v) == IF v.is = "Text" THEN TextRefs(v.text) ELSE {v.name}

ExprRefs(e) ==
  CASE e.of \in NumericKinds -> ValueRefs[e.left] \cup ValueRefs[e.right]
    [] e.of = "String" -> TextValueRefs(e.left) \cup TextValueRefs(e.right)
    [] e.of = "Bool" -> {e.name}
    [] OTHER -> {}

CondRefs[c \in Conditions] ==
  CASE c.is = "Expr" -> ExprRefs(c.expr)
    [] c.is = "Not" -> CondRefs[c.cond]
    [] OTHER -> UNION {CondRefs[c.conds[i]] : i \in DOMAIN c.conds}

\* A field of a message that is a reference needs a kind that is put between
\* quotes, as the fields of messages are strings, or base64, which is too.
MsgsValid(msgs, vars) ==
  \A i \in DOMAIN msgs, j \in DOMAIN vars :
    msgs[i] = <<Ref(vars[j].name)>> =>
      vars[j].encode \/ vars[j].kind \in {"String", "Uint", "Decimal", "Amount", "Asset"}

ValidJob(job) ==
  /\ VarsValid(job.vars)
  /\ ~HasDuplicates(job.vars)
  /\ \A name \in CondRefs[job.condition]
                   \cup UNION {CondRefs[job.terminate_condition[i]] :
                                 i \in DOMAIN job.terminate_condition}
                   \cup UNION {TextRefs(job.msgs[i]) : i \in DOMAIN job.msgs} :
       Known(name, job.vars)
  /\ MsgsValid(job.msgs, job.vars)
=============================================================================
