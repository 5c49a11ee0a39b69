---------------------------- MODULE WarpTemplates ----------------------------
(***************************************************************************)
(* The templates contract: templates that users submit for a fee, rename   *)
(* and delete, and a reader who lists them page by page while they change. *)
(* What a template holds besides its id, owner and name is copied as it    *)
(* is, and left out.                                                       *)
(***************************************************************************)
EXTENDS WarpBank, FiniteSets, FiniteSetsExt, Functions

CONSTANTS
  Users,      \* who submits, owns the contract or collects fees
  Contract,   \* the contract's own address
  Names,      \* names of templates; the empty and the too long are refused
  Denoms,     \* denominations
  Amounts,    \* coins sent along in one denomination
  Configs,    \* configurations an owner may set
  Given,      \* templates handed to instantiate, by position from 0
  Funds,      \* coins each user starts with, of each denomination
  Limits,     \* limits of the reader's pages
  MaxId       \* bound: templates ever stored

ConfigType == [owner : Users, fee_denom : Denoms, template_fee : Nat, fee_collector : Users]

ASSUME TemplatesAssumption ==
  /\ Contract \notin Users
  /\ Configs \subseteq ConfigType
  /\ Amounts \subseteq Nat \ {0} /\ Funds \in Nat /\ MaxId \in Nat
  /\ Limits \subseteq Nat \ {0}
  /\ Given \in [DOMAIN Given -> [id : Nat, owner : Users, name : Names]]
  /\ IsFiniteSet(DOMAIN Given)
  /\ DOMAIN Given = 0..(Cardinality(DOMAIN Given) - 1)
  /\ Cardinality(DOMAIN Given) <= MaxId

\* instantiate stores a template under its position, whatever id it carries;
\* the reader's pages need the two to agree.
ASSUME GivenIdsAssumption == \A k \in DOMAIN Given : Given[k].id = k

VARIABLES
  config,               \* CONFIG
  current_template_id,  \* STATE.current_template_id
  templates,            \* TEMPLATES
  balance,              \* coins, by denomination
  reader                \* one listing under way, and what it has shown

vars == <<config, current_template_id, templates, balance, reader>>

Holders == Users \cup {Contract}

-----------------------------------------------------------------------------
(* Handlers *)

\* Variant: the number of templates there are.
NextFreeId(ts) == Cardinality(DOMAIN ts)

\* The id after the one given out, whatever has been deleted.
NextId(ts) == current_template_id + 1

\* Variant: any amount of the denomination will do.
CarriesDenom(funds) == \E coin \in funds : coin.denom = config.fee_denom

\* Coins a message carries: a chain passes none of zero.  The handler looks
\* for the fee as one of them, to the coin.
CarriesFee(funds) ==
  \E coin \in funds : coin.denom = config.fee_denom /\ coin.amount = config.template_fee

\* The funds go to the contract, and the fee from there to the collector.
Received(b, sender, funds) ==
  [d \in Denoms |->
     LET coins == {c \in funds : c.denom = d} IN
     IF coins = {} THEN b[d]
     ELSE After(b[d], Payment(sender, Contract, (CHOOSE c \in coins : TRUE).amount))]

\* One coin of a denomination at most, each of them affordable.
Sent(sender, funds) ==
  /\ \A c1, c2 \in funds : c1.denom = c2.denom => c1 = c2
  /\ \A c \in funds : Affords(balance[c.denom], Payment(sender, Contract, c.amount))

SubmitTemplate(sender, funds, name) ==
  LET b == Received(balance, sender, funds)
      fee == Payment(Contract, config.fee_collector, config.template_fee)
  IN
  /\ current_template_id < MaxId
  /\ Sent(sender, funds)
  /\ CarriesFee(funds)
  /\ templates' = Save(templates, current_template_id,
       [id |-> current_template_id, owner |-> sender, name |-> name])
  /\ current_template_id' = NextId(templates')
  /\ Affords(b[config.fee_denom], fee)
  /\ balance' = [b EXCEPT ![config.fee_denom] = After(@, fee)]
  /\ UNCHANGED <<config, reader>>

\* A template that changes or goes is no longer steady for the reader.
Disturb(id) == reader' = [reader EXCEPT !.steady = @ \ {id}]

\* Only the name can change.
EditTemplate(sender, id, name) ==
  /\ id \in DOMAIN templates
  /\ sender = templates[id].owner
  /\ templates' = [templates EXCEPT ![id].name = name]
  /\ Disturb(id)
  /\ UNCHANGED <<config, current_template_id, balance>>

DeleteTemplate(sender, id) ==
  /\ id \in DOMAIN templates
  /\ sender = templates[id].owner
  /\ templates' = Remove(templates, id)
  /\ Disturb(id)
  /\ UNCHANGED <<config, current_template_id, balance>>

\* Any field, without a check.
UpdateConfig(sender, new) ==
  /\ sender = config.owner
  /\ config' = new
  /\ UNCHANGED <<current_template_id, templates, balance, reader>>

-----------------------------------------------------------------------------
(* Listing *)

\* Variant: limit keys are taken first, the filter applied to them.
PageThenFilter(cursor, limit, name) ==
  LET rest == {k \in DOMAIN templates : k > cursor} IN
  {k \in {k \in rest : Cardinality({j \in rest : j < k}) < limit} : templates[k].name = name}

\* query_templates: the first of those that match, in ascending order, after
\* start_after.
ListPage(cursor, limit, name) ==
  LET rest == {k \in DOMAIN templates : k > cursor /\ templates[k].name = name} IN
  {k \in rest : Cardinality({j \in rest : j < k}) < limit}

\* The reader asks for the templates of a name, and goes on after the id of
\* the last one shown, until a page is not full.  `steady` are the matching
\* templates that nobody touches meanwhile.
StartReading(name) ==
  /\ reader.done
  /\ reader' = [cursor |-> -1, name |-> name, shown |-> {}, twice |-> FALSE, done |-> FALSE,
                steady |-> {k \in DOMAIN templates : templates[k].name = name}]
  /\ UNCHANGED <<config, current_template_id, templates, balance>>

ReadPage(limit) ==
  LET page == ListPage(reader.cursor, limit, reader.name)
      ids == {templates[k].id : k \in page}
  IN
  /\ ~reader.done
  /\ reader' = [reader EXCEPT
       !.cursor = IF page = {} THEN @ ELSE templates[Max(page)].id,
       !.twice = @ \/ ids \cap reader.shown # {},
       !.shown = @ \cup ids,
       !.done = Cardinality(page) < limit]
  /\ UNCHANGED <<config, current_template_id, templates, balance>>

-----------------------------------------------------------------------------
(* Specification *)

NoReading == [cursor |-> -1, name |-> CHOOSE n \in Names : TRUE, shown |-> {},
              twice |-> FALSE, done |-> TRUE, steady |-> {}]

\* instantiate: no fee, collected by the owner, whatever fee_collector says.
Init ==
  /\ \E owner \in Users, denom \in Denoms :
       config = [owner |-> owner, fee_denom |-> denom, template_fee |-> 0,
                 fee_collector |-> owner]
  /\ current_template_id = Cardinality(DOMAIN Given)
  /\ templates = Given
  /\ balance = [d \in Denoms |-> [h \in Holders |-> IF h \in Users THEN Funds ELSE 0]]
  /\ reader = NoReading

Next ==
  \/ \E sender \in Users, name \in Names :
       \E funds \in SUBSET [denom : Denoms, amount : Amounts] : SubmitTemplate(sender, funds, name)
  \/ \E sender \in Users, id \in 0..MaxId, name \in Names : EditTemplate(sender, id, name)
  \/ \E sender \in Users, id \in 0..MaxId : DeleteTemplate(sender, id)
  \/ \E sender \in Users, new \in Configs : UpdateConfig(sender, new)
  \/ \E name \in Names : StartReading(name)
  \/ \E limit \in Limits : ReadPage(limit)

Spec == Init /\ [][Next]_vars

-----------------------------------------------------------------------------
(* Properties *)

TemplateType == [id : 0..MaxId, owner : Users, name : Names]

\* Variables in their types; a template carries the id it is stored under,
\* which lies below the next one.
TemplatesTypeOK ==
  /\ config \in ConfigType
  /\ current_template_id \in 0..MaxId
  /\ IsMap(templates, 0..(current_template_id - 1), TemplateType)
  /\ \A k \in DOMAIN templates : templates[k].id = k
  /\ balance \in [Denoms -> [Holders -> Nat]]
  /\ reader.steady \cup reader.shown \subseteq 0..MaxId

\* An id is never given to a second template, also when templates have been
\* deleted: nobody's link ever leads to another's template, and submit never
\* overwrites one.
IdsNeverReused ==
  [][\A id \in DOMAIN templates' :
       IF id \in DOMAIN templates THEN templates'[id].owner = templates[id].owner
       ELSE id >= current_template_id]_vars

\* A reader who follows the pages of a name to the last one is shown each
\* template that was there all along, and none twice, whatever is submitted,
\* renamed and deleted between two pages.
PagesComplete == reader.done => reader.steady \subseteq reader.shown /\ ~reader.twice

\* The fee comes from the submitter: whatever other coins the contract has been
\* left with, and whatever the denomination of the fee was then, it never pays
\* out of them.
FeeNotSubsidized ==
  [][\A d \in Denoms : balance'[d][Contract] >= balance[d][Contract]]_vars
=============================================================================
