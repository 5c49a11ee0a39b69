----------------------------- MODULE MCJobSeries -----------------------------
(***************************************************************************)
(* JobSeries on a small instance: integers up to 3, jobs that count, that  *)
(* wait for a time or a price, that take inputs, that swap two values,     *)
(* whose update does not fit, that divide, that trade what a pool holds,   *)
(* and whose references lead forward.                                      *)
(***************************************************************************)
EXTENDS JobSeries, TLC

CONSTANTS
  counter, price, input, note, letter, due, flag, left, right, total, total_fee, asset, amount,
  order

NoRest == <<>>
FeeRest == <<total, total_fee>> :> Word("_fee")

Static(name, kind, value, update_fn) ==
  [is |-> "Static", name |-> name, kind |-> kind, value |-> value, encode |-> FALSE,
   update_fn |-> update_fn]
External(name, kind, reinitialize) ==
  [is |-> "External", name |-> name, kind |-> kind, value |-> None, encode |-> FALSE,
   reinitialize |-> reinitialize, update_fn |-> None]
Query(name, kind, init_fn, reinitialize) ==
  [is |-> "Query", name |-> name, kind |-> kind, value |-> None, encode |-> FALSE,
   init_fn |-> init_fn, reinitialize |-> reinitialize, update_fn |-> None]
InBase64(var) == [var EXCEPT !.encode = TRUE]

Rate == Field(<<Word("rate")>>)
Pool == Field(<<Word("pool")>>)
Assets == Field(<<Word("assets")>>)
Size == Field(<<Wide("groesse")>>)  \* with the o and the s it has in German

Ask(contract_addr, msg, steps) ==
  [contract_addr |-> contract_addr, msg |-> msg, selector |-> PathOf(steps)]
Oracle == <<Word("oracle")>>
Luna == <<Word("luna")>>
Usd == <<Word("usd")>>

Simple(n) == [is |-> "Simple", value |-> n]
Var(name) == [is |-> "Ref", name |-> name]
Time == [is |-> "Env", of |-> "Time"]
Binary(op, l, r) == [is |-> "Expr", op |-> op, left |-> l, right |-> r]
Unary(op, r) == [is |-> "Fn", op |-> op, right |-> r]
Update(of, value) == [of |-> of, value |-> value]

Leaf(of, op, l, r) == [is |-> "Expr", expr |-> [of |-> of, op |-> op, left |-> l, right |-> r]]
IsSet(name) == [is |-> "Expr", expr |-> [of |-> "Bool", name |-> name]]
Reached(of, n) == [is |-> "Expr", expr |-> [of |-> of, op |-> "Gt", comparator |-> n]]
And(conds) == [is |-> "And", conds |-> conds]
Or(conds) == [is |-> "Or", conds |-> conds]
Not(cond) == [is |-> "Not", cond |-> cond]

Job(variables, condition, terminate_condition, msgs) ==
  [vars |-> variables, condition |-> condition, terminate_condition |-> terminate_condition,
   msgs |-> msgs]

Counter == Static(counter, "Int", <<Num(0)>>,
                  [Executed |-> Plus1(counter), Failed |-> Plus1(counter)])

\* Runs twice when the price, asked for anew each time, is above 1; a letter
\* that quotes a note that quotes the price.
Counting ==
  Job(<<Counter,
        Query(price, "Int", Ask(Oracle, Luna, <<Rate>>), TRUE),
        Static(note, "String", <<Word("now"), Ref(price)>>, None),
        Static(letter, "String", <<Ref(note)>>, None)>>,
      Leaf("Int", "Gt", Var(price), Simple(1)), <<AtLeast(counter, 2)>>, <<<<Ref(letter)>>>>)

\* Counts without an end, until the number is too large; the next execution is
\* due one after the last.
Waiting ==
  Job(<<Counter,
        Static(due, "Uint", <<Num(0)>>,
               [Executed |-> Update("Uint", Binary("Add", Time, Simple(1)))]),
        Static(flag, "Bool", <<Truth(TRUE)>>, [Failed |-> [of |-> "Bool", name |-> flag]])>>,
      And(<<Leaf("Uint", "Gte", Time, Var(due)), IsSet(flag)>>), <<>>, <<>>)

\* An input that says which contract to ask, and what.
Asking ==
  Job(<<External(input, "String", FALSE),
        Query(price, "Decimal", Ask(<<Ref(input)>>, <<Ref(input)>>, <<Rate>>), FALSE),
        Static(note, "String", <<Ref(input)>>, None)>>,
      Leaf("Decimal", "Lt", Unary("Sqrt", Var(price)), Simple(4)), <<>>, <<<<Ref(note)>>>>)

\* Two values that change places, one of them signed.
Swapping ==
  Job(<<Static(left, "Int", <<Num(-2)>>,
               [Executed |-> Update("Int", Unary("Abs", Var(right)))]),
        Static(right, "Int", <<Num(1)>>,
               [Executed |-> Update("Int", Var(left)),
                Failed |-> Update("Int", Unary("Neg", Var(right)))])>>,
      Or(<<>>), <<>>, <<>>)
Turning == [Swapping EXCEPT !.condition = Not(@)]

\* A condition that divides by zero after two executions.
Dividing ==
  Job(<<Counter>>,
      Leaf("Int", "Neq", Binary("Div", Simple(2), Binary("Sub", Simple(2), Var(counter))),
           Simple(0)),
      <<>>, <<>>)

\* An update function of another kind than its variable.
Misfit ==
  Job(<<Static(due, "Int", <<Num(2)>>,
               [Executed |-> Update("Uint", Binary("Mul", Var(due), Simple(2)))])>>,
      And(<<>>), <<>>, <<>>)

\* Trades what the pool holds now: an order in base64 that quotes an asset and
\* an amount, which is encoded in itself.
Trading ==
  Job(<<Query(asset, "Asset", Ask(Oracle, Luna, <<Pool, Assets, Index(1)>>), TRUE),
        InBase64(Query(amount, "Amount", Ask(Oracle, Luna, <<Pool, Rate>>), TRUE)),
        InBase64(Static(order, "Json", <<Ref(asset), Word("for"), Ref(amount)>>, None))>>,
      Leaf("String", "Contains", Var(asset), [is |-> "Text", text |-> Usd]), <<>>,
      <<<<Ref(order)>>, <<Ref(asset)>>>>)

\* A reference forward, and one to no variable.
Early == Job(<<Static(note, "String", <<Ref(letter)>>, None),
               Static(letter, "String", <<Word("hi")>>, None)>>,
             And(<<>>), <<>>, <<<<Ref(note)>>>>)
Unknown == Job(<<>>, IsSet(flag), <<>>, <<>>)

MCJobs ==
  {Counting, Waiting, Asking, Trading, Swapping, Turning, Dividing, Misfit, Early, Unknown}

\* A sum and a fee, whose name begins with that of the sum.
FeeJobs ==
  {Job(<<Static(total, "Int", <<Num(2)>>, None),
         Static(total_fee, "Int", <<Num(1)>>, None),
         Static(note, "String", <<Ref(total_fee)>>, None)>>,
       And(<<>>), <<>>, <<<<Ref(note)>>>>)}

MCInputs == {None, <<input :> Luna>>, <<input :> Usd>>, <<price :> <<Num(1)>>>>}

\* What an oracle tells of a token: its rate, and the pool it is in.
Quoted(rate, amount_text, assets) ==
  Object((Rate.field :> rate) @@
         (Pool.field :> Object((Rate.field :> Scalar("string", amount_text)) @@
                               (Assets.field :> Array(assets)) @@
                               (Size.field :> Array(assets)))))
Holding(text) == Scalar("string", text)
Named(text) == Object((Rate.field :> Holding(text)) @@ (Size.field :> Holding(text)))

MCAnswers ==
  {<<Oracle, Luna>> :> Quoted(Scalar("number", <<Num(1)>>), <<Num(5)>>,
                              <<Holding(Luna), Holding(Usd)>>),
   (<<Oracle, Luna>> :> Quoted(Scalar("number", <<Num(2)>>), <<Num(7)>>, <<Holding(Luna)>>))
     @@ (<<Luna, Luna>> :> Quoted(Scalar("string", <<Num(4)>>), Luna, <<>>))
     @@ (<<Usd, Usd>> :> Object(Rate.field :> Scalar("string", <<Dec(3)>>))),
   (<<Usd, Usd>> :> Object(Rate.field :> Scalar("string", <<Num(4)>>)))
     @@ (<<Oracle, Luna>> :> Array(<<Array(<<Named(Usd)>>), Named(Luna)>>))}

Steps == {Rate, Pool, Assets, Size, Index(0), Index(1)}
MCSelectors == UNION {[1..n -> Steps] : n \in 0..3}

\* True, false and unresolvable expressions of every kind, and conditions of
\* them up to two deep.
Leaves ==
  {AtLeast(counter, 1), IsSet(flag), Reached("Time", 0),
   Leaf("Int", "Eq", Binary("Mod", Simple(-3), Simple(2)), Simple(-1)),
   Leaf("Int", "Neq", Unary("Abs", Simple(-4)), Simple(3)),
   Leaf("Decimal", "Lte", Binary("Div", Simple(1), Simple(0)), Simple(1)),
   Leaf("Decimal", "Eq", Unary("Ceil", Simple(3)), Simple(4)),
   Leaf("String", "StartsWith", Var(note), [is |-> "Text", text |-> <<Word("now")>>])}
Pairs == {<<a, b>> : a, b \in Leaves}
Level1 == {And(p) : p \in Pairs} \cup {Or(p) : p \in Pairs} \cup {And(<<>>), Or(<<>>)}
MCProbes ==
  Leaves \cup Level1 \cup {Not(c) : c \in Level1}
    \cup {Or(<<Not(l), And(<<l, m>>)>>) : l, m \in Leaves}

\* Everything the jobs and the probes are written with, and what is nested in it.
Parts(t) ==
  CASE t.is \in {"And", "Or"} -> Range(t.conds)
    [] t.is = "Not" -> {t.cond}
    [] t.is = "Fn" -> {t.right}
    [] t.is = "Expr" /\ "op" \in DOMAIN t -> {t.left, t.right}
    [] OTHER -> {}

MaxNesting == 4
Nested(terms) ==
  LET Within[n \in 0..MaxNesting] ==
        IF n = 0 THEN terms ELSE Within[n - 1] \cup UNION {Parts(t) : t \in Within[n - 1]}
  IN Within[MaxNesting]

RECURSIVE MCDepth(_)
MCDepth(t) == 1 + Max({0} \cup {MCDepth(p) : p \in Parts(t)})

ConditionsOf(jobs) ==
  Nested(UNION {{j.condition} \cup Range(j.terminate_condition) : j \in jobs})
ExpressionsOf(conditions) == {c.expr : c \in {c \in conditions : c.is = "Expr"}}
UpdatesOf(jobs) == UNION {Range(v.update_fn) : v \in UNION {Range(j.vars) : j \in jobs}}
ValuesOf(jobs, conditions) ==
  Nested(UNION {{e.left, e.right} : e \in {e \in ExpressionsOf(conditions) : e.of \in NumericKinds}}
           \cup {fn.value : fn \in {fn \in UpdatesOf(jobs) : fn.of # "Bool"}})

SeriesConditions == ConditionsOf(MCJobs) \cup Nested(MCProbes)
SeriesValues == ValuesOf(MCJobs, SeriesConditions)
\* Names of their own: TLC evaluates what stands for a constant each time, and
\* what that is defined by once.
MCConditions == SeriesConditions
MCValues == SeriesValues
FeeConditions == ConditionsOf(FeeJobs)
FeeValues == ValuesOf(FeeJobs, FeeConditions)

NoProbes == {}
NoSelectors == {}
=============================================================================
