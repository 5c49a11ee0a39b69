----------------------------- MODULE JobSeries -----------------------------
(***************************************************************************)
(* The variables of a recurring job: execute_job hydrates those that are   *)
(* stored with what keepers hand in and what queries answer, and reply     *)
(* updates the stored ones, not the hydrated, for the next job of the      *)
(* series.  Jobs, rewards and the queue are WarpController's; here the job *)
(* is the resolver's side of it, one series from its creation on.          *)
(***************************************************************************)
EXTENDS Resolver

CONSTANTS
  Submitted,  \* jobs an owner submits
  Inputs,     \* external inputs keepers hand in
  Answers,    \* what the queries may answer, a document by query
  Selectors,  \* fields and indices that selectors are written for
  MaxTime,    \* bound: block time and height
  MaxRuns,    \* bound: executions that come to a reply
  Probes      \* conditions looked at in every state

IsVariable(v) ==
  /\ {"is", "name", "kind", "value", "encode", "update_fn"} \subseteq DOMAIN v
  /\ v.is \in {"Static", "External", "Query"}
  /\ v.is # "Static" => "reinitialize" \in DOMAIN v
  /\ v.is = "Query" => "init_fn" \in DOMAIN v
  /\ \A s \in DOMAIN v.update_fn : LET fn == v.update_fn[s] IN
       /\ fn.of \in NumericKinds \cup {"Timestamp", "BlockHeight", "Bool"}
       /\ fn.of # "Bool" => fn.value \in Values

IsJob(j) ==
  /\ j = [vars |-> j.vars, condition |-> j.condition,
          terminate_condition |-> j.terminate_condition, msgs |-> j.msgs]
  /\ j.vars \in Seq(Range(j.vars)) /\ \A v \in Range(j.vars) : IsVariable(v)
  /\ j.condition \in Conditions /\ j.terminate_condition \in Seq(Conditions)

ASSUME JobsAssumption ==
  /\ \A j \in Submitted : IsJob(j)
  /\ Probes \subseteq Conditions

VARIABLES
  job,      \* the pending job of the series, or the last one
  status,   \* its status, "Ended" when another ending than by reply
  env,      \* block time, height and answers to queries
  outcomes  \* of the executions so far

vars == <<job, status, env, outcomes>>

-----------------------------------------------------------------------------
(* Handlers *)

\* Variant: the condition sees the variables the finished job had.
TerminatesBefore(old, new, e) ==
  \E i \in DOMAIN job.terminate_condition :
    ResolveCond(job.terminate_condition[i], Range(old), e) # {FALSE}

\* The terminate condition on the updated variables; an error terminates too.
Terminates(old, new, e) ==
  \E i \in DOMAIN job.terminate_condition :
    ResolveCond(job.terminate_condition[i], Range(new), e) # {FALSE}

\* reply: an update that fails undoes the execution.  A job that cannot pay for
\* the next one, or terminates, ends the series.
JobReply(outcome) ==
  /\ Len(outcomes) < MaxRuns
  /\ outcomes' = Append(outcomes, outcome)
  /\ \/ status' = outcome /\ UNCHANGED job
     \/ \E updated \in ApplyVarFn(job.vars, outcome, env) :
          IF Terminates(job.vars, updated, env)
          THEN status' = outcome /\ UNCHANGED job
          ELSE job' = [job EXCEPT !.vars = updated] /\ UNCHANGED status

\* A condition that cannot be resolved finishes the job, with the hydrated
\* variables; one that is false, or messages that cannot be hydrated, fail the
\* call and nothing changes.
ExecuteJob(inputs) ==
  /\ status = "Pending"
  /\ \E hydrated \in HydrateVars(job.vars, inputs, env) :
       \/ /\ ResolveCond(job.condition, Range(hydrated), env) = {}
          /\ status' = "Failed"
          /\ job' = [job EXCEPT !.vars = hydrated]
          /\ UNCHANGED outcomes
       \/ /\ ResolveCond(job.condition, Range(hydrated), env) = {TRUE}
          /\ HydrateMsgs(job.msgs, hydrated) # {}
          /\ \E outcome \in {"Executed", "Failed"} : JobReply(outcome)
  /\ UNCHANGED env

\* delete_job and evict_job.
EndJob ==
  /\ status = "Pending"
  /\ status' = "Ended"
  /\ UNCHANGED <<job, env, outcomes>>

\* Blocks follow each other, and other contracts answer as they like.
NextBlock ==
  /\ \E answers \in Answers :
       env' = [Time |-> IF env.Time < MaxTime THEN env.Time + 1 ELSE env.Time,
               BlockHeight |-> IF env.Time < MaxTime THEN env.BlockHeight + 1 ELSE env.BlockHeight,
               answers |-> answers]
  /\ UNCHANGED <<job, status, outcomes>>

-----------------------------------------------------------------------------
(* Specification *)

\* create_job asks the resolver to validate the job.
Init ==
  /\ job \in {j \in Submitted : ValidJob(j)}
  /\ status = "Pending"
  /\ env \in {[Time |-> 0, BlockHeight |-> 1, answers |-> a] : a \in Answers}
  /\ outcomes = <<>>

Next ==
  \/ \E inputs \in Inputs : ExecuteJob(inputs)
  \/ EndJob
  \/ NextBlock

Spec == Init /\ [][Next]_vars

-----------------------------------------------------------------------------
(* Properties *)

\* The variables of a pending job are as valid as create_job demands of the
\* first of the series: no update of any execution leaves a text its kind cannot
\* parse or too large a number.  reply() does not validate them again.
StoredVarsValid ==
  /\ status \in {"Pending", "Executed", "Failed", "Ended"}
  /\ Range(outcomes) \subseteq {"Executed", "Failed"}
  /\ status = "Pending" => ValidJob(job)

\* The update functions do not see each other's results: in any other order of
\* the variables they come to the same.
UpdatesIndependent ==
  \A outcome \in {"Executed", "Failed"} :
    LET turned == Reverse(job.vars) IN
    {Reverse(v) : v \in ApplyVarFn(turned, outcome, env)} = ApplyVarFn(job.vars, outcome, env)

\* The truth values a condition can have if those of its expressions that
\* cannot be resolved were true or false.
Possibly(c, possible, known, e) ==
  LET Each(b) == \A i \in DOMAIN c.conds : b \in possible[c.conds[i]]
      Some(b) == \E i \in DOMAIN c.conds : b \in possible[c.conds[i]]
      Result(can_be_true, can_be_false) ==
        {b \in BOOLEAN : IF b THEN can_be_true ELSE can_be_false}
  IN CASE c.is = "And" -> Result(Each(TRUE), Some(FALSE))
       [] c.is = "Or" -> Result(Some(TRUE), Each(FALSE))
       [] c.is = "Not" -> {~b : b \in possible[c.cond]}
       [] c.is = "Expr" -> LET r == ResolveExpr(c.expr, known, e) IN
                           IF r = {} THEN BOOLEAN ELSE r

PossibleTruths(known, e) ==
  LET Possible[c \in Conditions] == Possibly(c, Possible, known, e) IN Possible

Expressions[c \in Conditions] ==
  CASE c.is = "Expr" -> {c.expr}
    [] c.is = "Not" -> Expressions[c.cond]
    [] OTHER -> UNION {Expressions[c.conds[i]] : i \in DOMAIN c.conds}

\* No execution is decided by an error: where evaluation from left to right
\* comes to a value, it is the only one the condition can have, whatever the
\* expressions it passed over or could not resolve; and it comes to a value
\* whenever all expressions do.
ConditionsSound ==
  \A c \in Probes :
    LET known == Range(job.vars)
        r == ResolveCond(c, known, env)
    IN IF r = {} THEN \E e \in Expressions[c] : ResolveExpr(e, known, env) = {}
       ELSE PossibleTruths(known, env)[c] = r

\* References of static variables lead to earlier variables only.
Backward(vs) ==
  \A i \in DOMAIN vs : vs[i].is = "Static" =>
    TextRefs(vs[i].value) \subseteq {vs[j].name : j \in 1..(i - 1)}

\* Hydration in the order of the vector resolves references through references
\* to the end, so that hydrate_msgs has nothing to refuse, whatever is handed in
\* and answered.
NoReferenceLeft ==
  status = "Pending" /\ Backward(job.vars) =>
    \A inputs \in Inputs : \A hydrated \in HydrateVars(job.vars, inputs, env) :
      \A i \in DOMAIN hydrated : ~HasRef(hydrated[i].value)

Plus1(name) ==
  [of |-> "Int",
   value |-> [is |-> "Expr", op |-> "Add", left |-> [is |-> "Ref", name |-> name],
              right |-> [is |-> "Simple", value |-> 1]]]

\* A variable that starts from 0 and counts the executions.
Counts(v) ==
  v.is = "Static" /\ v.update_fn = [Executed |-> Plus1(v.name), Failed |-> Plus1(v.name)]

AtLeast(name, n) ==
  [is |-> "Expr",
   expr |-> [of |-> "Int", op |-> "Gte", left |-> [is |-> "Ref", name |-> name],
             right |-> [is |-> "Simple", value |-> n]]]

\* A counter of the pending job is the number of executions, none lost by a
\* call that was undone and none counted twice; and the series is over when it
\* has run as often as its terminate condition says, not once more.
SeriesStopsInTime ==
  status = "Pending" =>
    \A v \in {v \in Range(job.vars) : Counts(v)} :
      /\ v.value = <<Num(Len(outcomes))>>
      /\ \A n \in 1..IntMax :
           job.terminate_condition = <<AtLeast(v.name, n)>> => Len(outcomes) < n

IsIndex(step) == DOMAIN step = {"index"}
IsAscii(step) == IsIndex(step) \/ \A c \in Range(step.field) : DOMAIN c # {"wide"}

\* Selectors of nested fields that end with at most one index.
Straight == {steps \in Selectors : \A i \in DOMAIN steps : IsIndex(steps[i]) => i = Len(steps)}

\* Selectors in ASCII, and those whose index ends the walk before the path does.
Readable(steps) ==
  (\E i \in DOMAIN steps : IsIndex(steps[i])) \/ \A i \in DOMAIN steps : IsAscii(steps[i])

\* A selector of nested fields that ends with at most one index leads to what it
\* says, and to nothing where the answer has nothing there: the hand-written
\* walk in resolve_path drops no field at the end of the path or before a
\* bracket.  A name that is not ASCII, with no index to end the walk, can make
\* it fail, but never read anything else in its place.
PathsFollowed ==
  \A q \in DOMAIN env.answers, steps \in Straight :
    LET found == ResolvePath(env.answers[q], PathOf(steps))
        meant == Meant(env.answers[q], steps)
    IN  found \subseteq meant /\ (Readable(steps) => found = meant)

\* "multiple nested fields / entries - $.field1.field2[0].field3": all that a
\* selector in ASCII says is followed, fields and indices behind an index too.
NestedPathsFollowed ==
  \A q \in DOMAIN env.answers, steps \in Selectors :
    (\A i \in DOMAIN steps : IsAscii(steps[i]))
    => ResolvePath(env.answers[q], PathOf(steps)) = Meant(env.answers[q], steps)

\* "Variable is specified as a reference value (string) in form of
\* $warp.variable.{name}": a static variable whose text is a reference to an
\* earlier variable takes that variable's value.
ReferenceIsVariable ==
  \A inputs \in Inputs : \A hydrated \in HydrateVars(job.vars, inputs, env) :
    \A i, j \in DOMAIN job.vars :
      j < i /\ job.vars[i].is = "Static" /\ job.vars[i].value = <<Ref(job.vars[j].name)>>
      => hydrated[i].value = hydrated[j].value
=============================================================================
