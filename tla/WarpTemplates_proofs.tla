------------------------ MODULE WarpTemplates_proofs ------------------------
(***************************************************************************)
(* Proofs about WarpTemplates, for every value of its constants.           *)
(*                                                                         *)
(* That pages are complete rests on what a reader half way has seen: every *)
(* id shown is at or before the cursor, and every steady template at or    *)
(* before it was shown.  A page keeps that true because it has no gap      *)
(* after the cursor, and ends it when it is short (SetTheorems).           *)
(***************************************************************************)
EXTENDS WarpTemplates, SetTheorems

\* The reader is a record of its fields, so far shown no id twice.
ReaderTypeOK ==
  /\ reader = [cursor |-> reader.cursor, name |-> reader.name, shown |-> reader.shown,
               twice |-> FALSE, done |-> reader.done, steady |-> reader.steady]
  /\ reader.cursor \in Int /\ reader.done \in BOOLEAN

\* What the reader has seen, up to the cursor.
SeenUpToCursor ==
  /\ \A id \in reader.shown : id <= reader.cursor
  /\ \A id \in reader.steady :
       /\ id \in DOMAIN templates /\ templates[id].name = reader.name
       /\ id <= reader.cursor => id \in reader.shown
  /\ reader.done => reader.steady \subseteq reader.shown

ReaderInv == ReaderTypeOK /\ SeenUpToCursor

TInv == TemplatesTypeOK /\ ReaderInv

-----------------------------------------------------------------------------
(* The coins *)

\* The funds that come with a message leave no balance negative, and take
\* nothing from the contract.
LEMMA ReceivedFunds ==
  ASSUME NEW b \in [Denoms -> [Holders -> Nat]], b = balance, NEW sender \in Users,
         NEW funds \in SUBSET [denom : Denoms, amount : Amounts], Sent(sender, funds)
  PROVE  /\ Received(b, sender, funds) \in [Denoms -> [Holders -> Nat]]
         /\ \A d \in Denoms : Received(b, sender, funds)[d][Contract] >= b[d][Contract]
  <1>1. sender \in Holders /\ Contract \in Holders /\ sender # Contract
    BY TemplatesAssumption DEF Holders
  <1>2. ASSUME NEW d \in Denoms
        PROVE  /\ Received(b, sender, funds)[d] \in [Holders -> Nat]
               /\ Received(b, sender, funds)[d][Contract] >= b[d][Contract]
    <2>1. PICK coins : coins = {c \in funds : c.denom = d}
      OBVIOUS
    <2>2. CASE coins = {}
      <3>1. Received(b, sender, funds)[d] = b[d]
        BY <2>1, <2>2 DEF Received
      <3>. QED
        BY <1>1, <3>1
    <2>3. CASE coins # {}
      <3>1. PICK coin : coin = CHOOSE c \in coins : TRUE
        OBVIOUS
      <3>2. coin \in funds /\ coin.denom = d
        BY <2>1, <2>3, <3>1
      <3>3. Received(b, sender, funds)[d] = After(b[d], Payment(sender, Contract, coin.amount))
        BY <2>1, <2>3, <3>1 DEF Received
      <3>4. Affords(b[d], Payment(sender, Contract, coin.amount))
        BY <3>2 DEF Sent
      <3>5. coin.amount \in Int
        BY <3>2, TemplatesAssumption
      <3>. QED
        BY <1>1, <3>3, <3>4, <3>5 DEF After, Affords, Payment
    <2>. QED
      BY <2>2, <2>3
  <1>3. Received(b, sender, funds) = [d \in Denoms |-> Received(b, sender, funds)[d]]
    BY DEF Received
  <1>. QED
    BY <1>2, <1>3

\* The coin that carries the fee is the only one of its denomination, so the
\* contract gets the fee to the coin.
LEMMA FeeReceived ==
  ASSUME TemplatesTypeOK, NEW sender \in Users,
         NEW funds \in SUBSET [denom : Denoms, amount : Amounts],
         Sent(sender, funds), CarriesFee(funds)
  PROVE  Received(balance, sender, funds)[config.fee_denom][Contract]
           = balance[config.fee_denom][Contract] + config.template_fee
  <1>1. sender \in Holders /\ Contract \in Holders /\ sender # Contract
    BY TemplatesAssumption DEF Holders
  <1>2. PICK d : d = config.fee_denom
    OBVIOUS
  <1>3. d \in Denoms /\ balance[d] \in [Holders -> Nat] /\ config.template_fee \in Nat
    BY <1>2 DEF TemplatesTypeOK, ConfigType
  <1>4. PICK fee \in funds : fee.denom = d /\ fee.amount = config.template_fee
    BY <1>2 DEF CarriesFee
  <1>5. PICK coins : coins = {c \in funds : c.denom = d}
    OBVIOUS
  <1>6. coins = {fee}
    BY <1>4, <1>5 DEF Sent
  <1>7. (CHOOSE c \in coins : TRUE) = fee
    BY <1>6
  <1>8. Received(balance, sender, funds)[d]
          = After(balance[d], Payment(sender, Contract, config.template_fee))
    BY <1>3, <1>4, <1>5, <1>6, <1>7 DEF Received
  <1>. QED
    BY <1>1, <1>2, <1>3, <1>8 DEF After, Payment

-----------------------------------------------------------------------------
(* The invariant *)

LEMMA TInvInit == Init => TInv
  <1>. SUFFICES ASSUME Init PROVE TInv
    OBVIOUS
  <1>1. PICK n : n = Cardinality(DOMAIN Given)
    OBVIOUS
  <1>2. n \in Nat /\ MaxId \in Nat /\ n <= MaxId /\ DOMAIN Given = 0..(n - 1)
    BY <1>1, TemplatesAssumption, FS_CardinalityType
  <1>3. /\ config \in ConfigType
        /\ current_template_id \in 0..MaxId
        /\ balance \in [Denoms -> [Holders -> Nat]]
    BY <1>1, <1>2, TemplatesAssumption DEF Init, ConfigType, Holders
  <1>4. ASSUME NEW k \in DOMAIN Given
        PROVE  Given[k] \in TemplateType /\ Given[k].id = k
    <2>1. Given[k] \in [id : Nat, owner : Users, name : Names] /\ Given[k].id = k
      BY TemplatesAssumption, GivenIdsAssumption
    <2>2. k \in 0..MaxId
      BY <1>2
    <2>. QED
      BY <2>1, <2>2 DEF TemplateType
  <1>5. Given \in [DOMAIN Given -> TemplateType]
    <2>1. Given = [k \in DOMAIN Given |-> Given[k]]
      BY TemplatesAssumption
    <2>. QED
      BY <1>4, <2>1
  <1>6. /\ IsMap(templates, 0..(current_template_id - 1), TemplateType)
        /\ \A k \in DOMAIN templates : templates[k].id = k
    BY <1>1, <1>2, <1>4, <1>5 DEF Init, IsMap
  <1>7. reader.steady \cup reader.shown \subseteq 0..MaxId /\ ReaderInv
    BY DEF Init, NoReading, ReaderInv, ReaderTypeOK, SeenUpToCursor
  <1>. QED
    BY <1>3, <1>6, <1>7 DEF TInv, TemplatesTypeOK

\* The templates keep their types while the reader reads.
LEMMA TemplatesFinite ==
  ASSUME TemplatesTypeOK
  PROVE  /\ DOMAIN templates \subseteq 0..MaxId
         /\ DOMAIN templates \in SUBSET Int
         /\ IsFiniteSet(DOMAIN templates)
  <1>1. current_template_id \in Int /\ current_template_id <= MaxId /\ MaxId \in Int
    BY TemplatesAssumption DEF TemplatesTypeOK
  <1>2. DOMAIN templates \subseteq 0..MaxId
    BY <1>1 DEF TemplatesTypeOK, IsMap
  <1>3. IsFiniteSet(0..MaxId)
    BY <1>1, FS_Interval
  <1>4. IsFiniteSet(DOMAIN templates)
    BY <1>2, <1>3, FS_Subset
  <1>5. \A k \in 0..MaxId : k \in Int
    OBVIOUS
  <1>. QED
    BY <1>2, <1>4, <1>5

LEMMA SubmitKeepsInv ==
  ASSUME TInv, NEW sender \in Users, NEW name \in Names,
         NEW funds \in SUBSET [denom : Denoms, amount : Amounts],
         SubmitTemplate(sender, funds, name)
  PROVE  /\ TInv'
         /\ \A d \in Denoms : balance'[d][Contract] >= balance[d][Contract]
  <1>1. PICK id : id = current_template_id
    OBVIOUS
  <1>2. id \in 0..MaxId /\ id \notin DOMAIN templates /\ id < MaxId /\ MaxId \in Nat
    BY <1>1, TemplatesAssumption DEF TInv, TemplatesTypeOK, IsMap, SubmitTemplate
  <1>3. current_template_id' = id + 1 /\ config' = config /\ reader' = reader
    BY <1>1 DEF SubmitTemplate, NextId
  <1>4. PICK t : t = [id |-> id, owner |-> sender, name |-> name]
    OBVIOUS
  <1>5. t \in TemplateType
    BY <1>2, <1>4 DEF TemplateType
  <1>6. templates' = [k \in DOMAIN templates \cup {id} |-> IF k = id THEN t ELSE templates[k]]
    BY <1>1, <1>4 DEF SubmitTemplate, Save
  <1>7. /\ IsMap(templates', 0..(current_template_id' - 1), TemplateType)
        /\ \A k \in DOMAIN templates' : templates'[k].id = k
    <2>1. DOMAIN templates' \subseteq 0..(current_template_id' - 1)
      BY <1>1, <1>2, <1>3, <1>6 DEF TInv, TemplatesTypeOK, IsMap
    <2>2. \A k \in DOMAIN templates : templates[k] \in TemplateType /\ templates[k].id = k
      BY DEF TInv, TemplatesTypeOK, IsMap
    <2>3. \A k \in DOMAIN templates' : templates'[k] \in TemplateType /\ templates'[k].id = k
      BY <1>4, <1>5, <1>6, <2>2
    <2>. QED
      BY <1>6, <2>1, <2>3 DEF IsMap
  <1>8. ReaderInv'
    BY <1>2, <1>3, <1>6 DEF TInv, ReaderInv, ReaderTypeOK, SeenUpToCursor
  <1>9. /\ balance' \in [Denoms -> [Holders -> Nat]]
        /\ \A d \in Denoms : balance'[d][Contract] >= balance[d][Contract]
    <2>1. PICK b : b = Received(balance, sender, funds)
      OBVIOUS
    <2>2. /\ Sent(sender, funds) /\ CarriesFee(funds)
          /\ balance \in [Denoms -> [Holders -> Nat]]
      BY DEF SubmitTemplate, TInv, TemplatesTypeOK
    <2>3. /\ b \in [Denoms -> [Holders -> Nat]]
          /\ \A d \in Denoms : b[d][Contract] >= balance[d][Contract]
      BY <2>1, <2>2, ReceivedFunds
    <2>4. PICK e : e = config.fee_denom
      OBVIOUS
    <2>5. PICK collector : collector = config.fee_collector
      OBVIOUS
    <2>6. PICK fee : fee = config.template_fee
      OBVIOUS
    <2>7. /\ e \in Denoms /\ collector \in Holders /\ collector # Contract /\ fee \in Nat
          /\ Contract \in Holders
      BY <2>4, <2>5, <2>6, TemplatesAssumption DEF TInv, TemplatesTypeOK, ConfigType, Holders
    <2>8. b[e][Contract] = balance[e][Contract] + fee
      BY <2>1, <2>2, <2>4, <2>6, FeeReceived DEF TInv
    <2>9. /\ balance' = [b EXCEPT ![e] = After(@, Payment(Contract, collector, fee))]
          /\ Affords(b[e], Payment(Contract, collector, fee))
      BY <2>1, <2>4, <2>5, <2>6 DEF SubmitTemplate
    <2>10. /\ After(b[e], Payment(Contract, collector, fee)) \in [Holders -> Nat]
           /\ After(b[e], Payment(Contract, collector, fee))[Contract] = balance[e][Contract]
      BY <2>2, <2>3, <2>7, <2>8, <2>9 DEF After, Affords, Payment
    <2>11. \A d \in Denoms : balance[d][Contract] \in Nat
      BY <2>2, <2>7
    <2>. QED
      BY <2>3, <2>7, <2>9, <2>10, <2>11
  <1>. QED
    BY <1>2, <1>3, <1>7, <1>8, <1>9 DEF TInv, TemplatesTypeOK

LEMMA EditKeepsInv ==
  ASSUME TInv, NEW sender \in Users, NEW id \in 0..MaxId, NEW name \in Names,
         EditTemplate(sender, id, name)
  PROVE  TInv'
  <1>1. /\ id \in DOMAIN templates
        /\ templates' = [templates EXCEPT ![id].name = name]
        /\ reader' = [reader EXCEPT !.steady = @ \ {id}]
        /\ UNCHANGED <<config, current_template_id, balance>>
    BY DEF EditTemplate, Disturb
  <1>2. /\ DOMAIN templates' = DOMAIN templates
        /\ \A k \in DOMAIN templates : templates[k] \in TemplateType /\ templates[k].id = k
    BY <1>1 DEF TInv, TemplatesTypeOK, IsMap
  <1>3. \A k \in DOMAIN templates' :
          /\ templates'[k] \in TemplateType /\ templates'[k].id = k
          /\ k # id => templates'[k] = templates[k]
    BY <1>1, <1>2 DEF TemplateType
  <1>4. templates' = [k \in DOMAIN templates' |-> templates'[k]]
    BY <1>1 DEF TInv, TemplatesTypeOK, IsMap
  <1>5. IsMap(templates', 0..(current_template_id' - 1), TemplateType)
    BY <1>1, <1>2, <1>3, <1>4 DEF TInv, TemplatesTypeOK, IsMap
  <1>6. reader' = [reader EXCEPT !.steady = reader'.steady]
        /\ reader'.steady = reader.steady \ {id}
    BY <1>1 DEF TInv, ReaderInv, ReaderTypeOK
  <1>7. ReaderInv'
    BY <1>2, <1>3, <1>6 DEF TInv, ReaderInv, ReaderTypeOK, SeenUpToCursor
  <1>. QED
    BY <1>1, <1>3, <1>5, <1>6, <1>7 DEF TInv, TemplatesTypeOK

LEMMA DeleteKeepsInv ==
  ASSUME TInv, NEW sender \in Users, NEW id \in 0..MaxId, DeleteTemplate(sender, id)
  PROVE  TInv'
  <1>1. /\ templates' = [k \in DOMAIN templates \ {id} |-> templates[k]]
        /\ reader' = [reader EXCEPT !.steady = @ \ {id}]
        /\ UNCHANGED <<config, current_template_id, balance>>
    BY DEF DeleteTemplate, Disturb, Remove
  <1>2. IsMap(templates', 0..(current_template_id' - 1), TemplateType)
        /\ \A k \in DOMAIN templates' : templates'[k].id = k
    BY <1>1 DEF TInv, TemplatesTypeOK, IsMap
  <1>3. reader' = [reader EXCEPT !.steady = reader'.steady]
        /\ reader'.steady = reader.steady \ {id}
    BY <1>1 DEF TInv, ReaderInv, ReaderTypeOK
  <1>4. ReaderInv'
    <2>1. \A k \in reader'.steady : k \in reader.steady /\ k # id
      BY <1>3
    <2>2. \A k \in reader'.steady : k \in DOMAIN templates' /\ templates'[k] = templates[k]
      BY <1>1, <2>1 DEF TInv, ReaderInv, SeenUpToCursor
    <2>3. reader' = [reader EXCEPT !.steady = reader'.steady] /\ ReaderTypeOK
      BY <1>3 DEF TInv, ReaderInv
    <2>4. /\ reader'.cursor = reader.cursor /\ reader'.shown = reader.shown
          /\ reader'.name = reader.name /\ reader'.done = reader.done
      BY <2>3 DEF ReaderTypeOK
    <2>5. ReaderTypeOK'
      BY <2>3 DEF ReaderTypeOK
    <2>. QED
      BY <2>1, <2>2, <2>4, <2>5 DEF TInv, ReaderInv, SeenUpToCursor
  <1>. QED
    BY <1>1, <1>2, <1>3, <1>4 DEF TInv, TemplatesTypeOK

LEMMA StartKeepsInv ==
  ASSUME TInv, NEW name \in Names, StartReading(name)
  PROVE  TInv'
  <1>1. /\ reader' = [cursor |-> -1, name |-> name, shown |-> {}, twice |-> FALSE,
                      done |-> FALSE,
                      steady |-> {k \in DOMAIN templates : templates[k].name = name}]
        /\ UNCHANGED <<config, current_template_id, templates, balance>>
    BY DEF StartReading
  <1>2. DOMAIN templates \subseteq 0..MaxId
    BY TemplatesFinite DEF TInv
  <1>3. \A id \in reader'.steady : id \in Int /\ id >= 0
    BY <1>1, <1>2, TemplatesAssumption
  <1>4. ReaderInv'
    <2>1. ReaderTypeOK'
      BY <1>1 DEF ReaderTypeOK
    <2>2. reader'.cursor = -1 /\ reader'.shown = {} /\ ~reader'.done
      BY <1>1
    <2>3. \A id \in reader'.steady : id \in DOMAIN templates' /\ templates'[id].name = reader'.name
      BY <1>1
    <2>. QED
      BY <1>3, <2>1, <2>2, <2>3 DEF ReaderInv, SeenUpToCursor
  <1>5. (reader.steady \cup reader.shown \subseteq 0..MaxId)'
    BY <1>1, <1>2
  <1>. QED
    BY <1>1, <1>4, <1>5 DEF TInv, TemplatesTypeOK

\* A page shows what comes next after the cursor, and nothing again.
LEMMA ReadKeepsInv ==
  ASSUME TInv, NEW limit \in Limits, ReadPage(limit)
  PROVE  TInv'
  <1>1. PICK rest : rest = {k \in DOMAIN templates :
                              k > reader.cursor /\ templates[k].name = reader.name}
    OBVIOUS
  <1>2. PICK page : page = PageOf(rest, limit)
    OBVIOUS
  <1>3. /\ DOMAIN templates \subseteq 0..MaxId /\ DOMAIN templates \in SUBSET Int
        /\ IsFiniteSet(DOMAIN templates)
    BY TemplatesFinite DEF TInv
  <1>4. /\ rest \in SUBSET Int /\ IsFiniteSet(rest)
        /\ page \in SUBSET rest /\ IsFiniteSet(page) /\ page \in SUBSET Int
    <2>1. rest \in SUBSET DOMAIN templates /\ page \in SUBSET rest
      BY <1>1, <1>2 DEF PageOf
    <2>2. IsFiniteSet(rest)
      BY <1>3, <2>1, FS_Subset
    <2>. QED
      BY <1>3, <2>1, <2>2, FS_Subset
  <1>5. limit \in Nat /\ limit > 0
    BY TemplatesAssumption
  <1>6. page = ListPage(reader.cursor, limit, reader.name)
    BY <1>1, <1>2 DEF ListPage, PageOf
  <1>7. \A k \in page : templates[k].id = k
    BY <1>1, <1>4 DEF TInv, TemplatesTypeOK
  <1>8. {templates[k].id : k \in page} = page
    BY <1>7
  <1>9. PICK cursor : cursor = IF page = {} THEN reader.cursor ELSE templates[Max(page)].id
    OBVIOUS
  <1>10. /\ reader' = [reader EXCEPT !.cursor = cursor,
                                     !.twice = @ \/ page \cap reader.shown # {},
                                     !.shown = @ \cup page,
                                     !.done = Cardinality(page) < limit]
         /\ UNCHANGED <<config, current_template_id, templates, balance>>
    BY <1>6, <1>8, <1>9 DEF ReadPage
  <1>11. page \cap reader.shown = {}
    <2>1. \A k \in page : k \in Int /\ k > reader.cursor
      BY <1>1, <1>4
    <2>2. \A k \in reader.shown : k <= reader.cursor /\ reader.cursor \in Int
      BY DEF TInv, ReaderInv, ReaderTypeOK, SeenUpToCursor
    <2>. QED
      BY <2>1, <2>2
  <1>12. reader' = [cursor |-> cursor, name |-> reader.name, shown |-> reader.shown \cup page,
                    twice |-> FALSE, done |-> Cardinality(page) < limit,
                    steady |-> reader.steady]
    <2>1. reader = [cursor |-> reader.cursor, name |-> reader.name, shown |-> reader.shown,
                    twice |-> FALSE, done |-> reader.done, steady |-> reader.steady]
      BY DEF TInv, ReaderInv, ReaderTypeOK
    <2>2. reader.twice = FALSE
      BY <2>1
    <2>3. (reader.twice \/ page \cap reader.shown # {}) = FALSE
      BY <1>11, <2>2, Zenon
    <2>4. PICK done : done = (Cardinality(page) < limit)
      OBVIOUS
    <2>5. reader' = [reader EXCEPT !.cursor = cursor, !.twice = FALSE,
                                   !.shown = reader.shown \cup page, !.done = done]
      BY <1>10, <2>3, <2>4, Zenon
    <2>. QED
      BY <2>1, <2>4, <2>5
  \* The cursor moves on to the last key of the page.
  <1>13. /\ cursor \in Int /\ cursor >= reader.cursor
         /\ \A k \in page : k <= cursor
         /\ cursor = reader.cursor \/ cursor \in page
    <2>1. reader.cursor \in Int
      BY DEF TInv, ReaderInv, ReaderTypeOK
    <2>2. CASE page = {}
      BY <1>9, <2>1, <2>2
    <2>3. CASE page # {}
      <3>1. \E k \in page : \A j \in page : j <= k
        BY <1>4, <2>3, GreatestKey
      <3>2. \E k \in page : \A j \in page : k >= j
        BY <1>4, <3>1
      <3>3. Max(page) \in page /\ \A j \in page : Max(page) >= j
        BY <3>2 DEF Max
      <3>4. cursor = Max(page)
        BY <1>7, <1>9, <2>3, <3>3
      <3>5. cursor \in Int /\ cursor > reader.cursor
        BY <1>1, <1>4, <3>3, <3>4
      <3>. QED
        BY <1>4, <2>1, <3>3, <3>4, <3>5
    <2>. QED
      BY <2>2, <2>3
  \* No steady template is passed over.
  <1>14. ASSUME NEW id \in reader.steady
         PROVE  /\ id <= cursor => id \in reader.shown \cup page
                /\ Cardinality(page) < limit => id \in reader.shown \cup page
    <2>1. /\ id \in DOMAIN templates /\ id \in Int /\ reader.cursor \in Int
          /\ templates[id].name = reader.name
          /\ id <= reader.cursor => id \in reader.shown
      BY <1>3 DEF TInv, ReaderInv, ReaderTypeOK, SeenUpToCursor
    <2>2. CASE id <= reader.cursor
      BY <2>1, <2>2
    <2>3. CASE id > reader.cursor
      <3>1. id \in rest
        BY <1>1, <2>1, <2>3
      <3>2. id <= cursor => id \in page
        <4>1. SUFFICES ASSUME id <= cursor PROVE id \in page
          OBVIOUS
        <4>2. cursor \in page
          BY <1>13, <2>1, <2>3, <4>1
        <4>3. CASE id < cursor
          BY <1>2, <1>4, <1>5, <3>1, <4>2, <4>3, PageHasNoGap
        <4>. QED
          BY <1>13, <2>1, <4>1, <4>2, <4>3
      <3>3. Cardinality(page) < limit => id \in page
        BY <1>2, <1>4, <1>5, <3>1, ShortPageIsLast
      <3>. QED
        BY <3>2, <3>3
    <2>. QED
      BY <2>1, <2>2, <2>3
  <1>15. ReaderTypeOK'
    BY <1>12, <1>13 DEF ReaderTypeOK
  <1>16. SeenUpToCursor'
    <2>1. \A id \in reader'.shown : id <= reader'.cursor
      <3>1. ASSUME NEW id \in reader.shown PROVE id <= cursor
        <4>1. /\ id <= reader.cursor /\ reader.cursor \in Int /\ reader.shown \subseteq 0..MaxId
          BY DEF TInv, TemplatesTypeOK, ReaderInv, ReaderTypeOK, SeenUpToCursor
        <4>2. id \in Int
          BY <4>1, TemplatesAssumption
        <4>. QED
          BY <1>13, <4>1, <4>2
      <3>. QED
        BY <1>12, <1>13, <3>1
    <2>2. \A id \in reader'.steady : id \in DOMAIN templates' /\ templates'[id].name = reader'.name
      BY <1>10, <1>12 DEF TInv, ReaderInv, SeenUpToCursor
    <2>. QED
      BY <1>12, <1>14, <2>1, <2>2 DEF SeenUpToCursor
  <1>17. (reader.steady \cup reader.shown \subseteq 0..MaxId)'
    BY <1>3, <1>4, <1>1, <1>12 DEF TInv, TemplatesTypeOK
  <1>. QED
    BY <1>10, <1>15, <1>16, <1>17 DEF TInv, TemplatesTypeOK, ReaderInv

LEMMA TInvStep == TInv /\ [Next]_vars => TInv'
  <1>. SUFFICES ASSUME TInv, [Next]_vars PROVE TInv'
    OBVIOUS
  <1>1. CASE \E sender \in Users, name \in Names :
               \E funds \in SUBSET [denom : Denoms, amount : Amounts] :
                 SubmitTemplate(sender, funds, name)
    BY <1>1, SubmitKeepsInv
  <1>2. CASE \E sender \in Users, id \in 0..MaxId, name \in Names : EditTemplate(sender, id, name)
    BY <1>2, EditKeepsInv
  <1>3. CASE \E sender \in Users, id \in 0..MaxId : DeleteTemplate(sender, id)
    BY <1>3, DeleteKeepsInv
  <1>4. CASE \E sender \in Users, new \in Configs : UpdateConfig(sender, new)
    BY <1>4, TemplatesAssumption
      DEF UpdateConfig, TInv, TemplatesTypeOK, ReaderInv, ReaderTypeOK, SeenUpToCursor, IsMap
  <1>5. CASE \E name \in Names : StartReading(name)
    BY <1>5, StartKeepsInv
  <1>6. CASE \E limit \in Limits : ReadPage(limit)
    BY <1>6, ReadKeepsInv
  <1>7. CASE UNCHANGED vars
    BY <1>7 DEF vars, TInv, TemplatesTypeOK, ReaderInv, ReaderTypeOK, SeenUpToCursor, IsMap
  <1>. QED
    BY <1>1, <1>2, <1>3, <1>4, <1>5, <1>6, <1>7 DEF Next

LEMMA TemplatesInvariant == Spec => []TInv
  BY TInvInit, TInvStep, PTL DEF Spec

-----------------------------------------------------------------------------
(* The theorems *)

\* Every template keeps its type and the id it is stored under.
THEOREM TemplatesTyped == Spec => []TemplatesTypeOK
  <1>1. TInv => TemplatesTypeOK
    BY DEF TInv
  <1>. QED
    BY <1>1, TemplatesInvariant, PTL

\* A reader of all pages is shown every template that was there all along, and
\* none twice, however many are submitted, renamed and deleted meanwhile and
\* whatever limits the pages have.
THEOREM ReadersMissNothing == Spec => []PagesComplete
  <1>1. TInv => PagesComplete
    BY DEF TInv, ReaderInv, ReaderTypeOK, SeenUpToCursor, PagesComplete
  <1>. QED
    BY <1>1, TemplatesInvariant, PTL

\* No id is given to a second template, and no template changes its owner.
THEOREM IdsGivenOnce == Spec => IdsNeverReused
  <1>1. TInv /\ [Next]_vars =>
          [\A id \in DOMAIN templates' :
             IF id \in DOMAIN templates THEN templates'[id].owner = templates[id].owner
             ELSE id >= current_template_id]_vars
    <2>. SUFFICES ASSUME TInv, Next, NEW id \in DOMAIN templates'
                  PROVE  IF id \in DOMAIN templates THEN templates'[id].owner = templates[id].owner
                         ELSE id >= current_template_id
      OBVIOUS
    <2>0. /\ current_template_id \in Int /\ current_template_id \notin DOMAIN templates
          /\ \A k \in DOMAIN templates : templates[k] \in TemplateType
      BY TemplatesAssumption DEF TInv, TemplatesTypeOK, IsMap
    <2>1. CASE \E sender \in Users, name \in Names :
                 \E funds \in SUBSET [denom : Denoms, amount : Amounts] :
                   SubmitTemplate(sender, funds, name)
      <3>1. PICK t : templates' = Save(templates, current_template_id, t)
        BY <2>1 DEF SubmitTemplate
      <3>. QED
        BY <2>0, <3>1 DEF Save
    <2>2. CASE \E sender \in Users, k \in 0..MaxId, name \in Names : EditTemplate(sender, k, name)
      BY <2>0, <2>2 DEF EditTemplate, TemplateType
    <2>3. CASE \E sender \in Users, k \in 0..MaxId : DeleteTemplate(sender, k)
      BY <2>3 DEF DeleteTemplate, Remove
    <2>4. CASE templates' = templates
      BY <2>4
    <2>5. (\E sender \in Users, new \in Configs : UpdateConfig(sender, new))
            \/ (\E name \in Names : StartReading(name))
            \/ (\E limit \in Limits : ReadPage(limit)) => templates' = templates
      BY DEF UpdateConfig, StartReading, ReadPage
    <2>. QED
      BY <2>1, <2>2, <2>3, <2>4, <2>5 DEF Next
  <1>. QED
    BY <1>1, TemplatesInvariant, PTL DEF Spec, IdsNeverReused

\* The contract's own coins are never spent on a fee.
THEOREM FeeFromSubmitter == Spec => FeeNotSubsidized
  <1>1. TInv /\ [Next]_vars =>
          [\A d \in Denoms : balance'[d][Contract] >= balance[d][Contract]]_vars
    <2>. SUFFICES ASSUME TInv, Next
                  PROVE  \A d \in Denoms : balance'[d][Contract] >= balance[d][Contract]
      OBVIOUS
    <2>1. CASE \E sender \in Users, name \in Names :
                 \E funds \in SUBSET [denom : Denoms, amount : Amounts] :
                   SubmitTemplate(sender, funds, name)
      BY <2>1, SubmitKeepsInv
    <2>2. CASE balance' = balance
      BY <2>2 DEF TInv, TemplatesTypeOK, Holders
    <2>3. ~(\E sender \in Users, name \in Names :
              \E funds \in SUBSET [denom : Denoms, amount : Amounts] :
                SubmitTemplate(sender, funds, name)) => balance' = balance
      BY DEF Next, EditTemplate, DeleteTemplate, UpdateConfig, StartReading, ReadPage
    <2>. QED
      BY <2>1, <2>2, <2>3
  <1>. QED
    BY <1>1, TemplatesInvariant, PTL DEF Spec, FeeNotSubsidized
=============================================================================
