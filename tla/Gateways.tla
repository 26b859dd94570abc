------------------------------ MODULE Gateways ------------------------------
(***************************************************************************)
(* The three payment gateways as functions: which ones a configuration     *)
(* gives, whether an order may be sent to one, what becomes of its answer  *)
(* to the one create call, and which status an answer to an inquiry stands *)
(* for.  An amount is only what the gateways tell apart, an answer the     *)
(* fields they compare.                                                    *)
(***************************************************************************)
EXTENDS Integers, FiniteSets

CONSTANTS
  Selling,   \* payments.enabled
  Settings   \* of every gateway: what its section of the configuration holds

Gateway == {"hooshpay", "uniquepay", "tetraminator"}
SettingNames == {"enabled", "secret", "callback", "return", "ipn"}

ASSUME GatewayAssumption == Selling \in BOOLEAN /\ Settings \in [Gateway -> SUBSET SettingNames]

-----------------------------------------------------------------------------
(* Which gateways there are.  One may be registered for inquiries and      *)
(* closed for new checkouts.                                               *)
UniquePayRegistered == {"secret", "callback", "return"} \subseteq Settings["uniquepay"]
TetraminatorRegistered == {"secret", "callback"} \subseteq Settings["tetraminator"]
HooshPayRegistered == {"secret", "callback", "return"} \subseteq Settings["hooshpay"]

Registered ==
  {g \in Gateway : \/ g = "uniquepay" /\ UniquePayRegistered
                   \/ g = "tetraminator" /\ TetraminatorRegistered
                   \/ g = "hooshpay" /\ HooshPayRegistered}

Ready(g) ==
  /\ {"enabled", "secret", "callback"} \subseteq Settings[g]
  /\ g # "tetraminator" => "return" \in Settings[g]
  /\ g = "hooshpay" => "ipn" \in Settings[g]

\* For a new checkout.
Routes == IF Selling THEN {g \in Registered : Ready(g)} ELSE {}

-----------------------------------------------------------------------------
(* The create call.                                                        *)

\* Whole toman: under 50,000, exactly that, up to 1,000,000, above.
Amounts == {"below", "minimum", "usual", "above"}

\* Checked before the call is reserved.
HooshPayTakes(amount) == amount \in {"minimum", "usual"}
TetraminatorTakes(amount) == amount # "below"
Accepts(g, amount) ==
  /\ g = "hooshpay" => HooshPayTakes(amount)
  /\ g = "tetraminator" => TetraminatorTakes(amount)

CreateAnswers == {"no_answer", "server_error", "refused", "unusable", "link"}

AnswerOutcome(answer) ==
  CASE answer \in {"no_answer", "server_error"} -> "ambiguous"
    [] answer \in {"refused", "unusable"} -> "failed"
    [] answer = "link" -> "created"

HooshPayCreate(answer) == AnswerOutcome(answer)
TetraminatorCreate(answer) == AnswerOutcome(answer)

\* UniquePay's minimum is looked at when the link is already there.
UniquePayCreate(amount, answer) ==
  IF answer = "link" /\ amount \in {"below", "minimum"} THEN "failed" ELSE AnswerOutcome(answer)

CreateOutcome(g, amount, answer) ==
  CASE g = "hooshpay" -> HooshPayCreate(answer)
    [] g = "tetraminator" -> TetraminatorCreate(answer)
    [] g = "uniquepay" -> UniquePayCreate(amount, answer)

-----------------------------------------------------------------------------
(* The inquiry.                                                            *)
InvoiceStates == {"open", "paid", "expired", "cancelled", "failed"}
Echo == {"same", "other", "absent"}
Answers ==
  [ok: BOOLEAN,        \* transport, HTTP status, JSON and the provider's own flag
   identity: Echo,     \* uid, refId or pay_id
   order: Echo,        \* order_id or hashId
   amount: {"exact", "other"},
   fee: Echo,          \* who pays the fee
   totals: BOOLEAN,    \* currency and payable amount add up
   state: InvoiceStates]

HooshPayConfirms(r) ==
  r.ok /\ r.identity # "other" /\ r.order # "other" /\ r.amount = "exact" /\ r.fee # "other"

UniquePayConfirms(r) ==
  /\ r.ok /\ r.identity # "other" /\ r.order # "other" /\ r.amount = "exact"
  /\ r.fee = "same" /\ r.totals

TetraminatorConfirms(r) == r.ok /\ r.identity = "same" /\ r.amount = "exact"

\* An answer that disagrees with the order in any field leaves it pending.
HooshPayQuery(r) == IF ~HooshPayConfirms(r) \/ r.state = "open" THEN "pending" ELSE r.state
UniquePayQuery(r) == IF ~UniquePayConfirms(r) \/ r.state = "open" THEN "pending" ELSE r.state
TetraminatorQuery(r) == IF ~TetraminatorConfirms(r) \/ r.state = "open" THEN "pending" ELSE r.state

QueryStatus(g, r) ==
  CASE g = "hooshpay" -> HooshPayQuery(r)
    [] g = "uniquepay" -> UniquePayQuery(r)
    [] g = "tetraminator" -> TetraminatorQuery(r)

\* An answer that names the invoice or the order tells its state; one about another invoice may
\* tell anything.
MayAnswer(state) ==
  {r \in Answers :
     /\ r.identity = "same" => r.order # "other"
     /\ r.identity # "other" /\ r.order # "other" => r.state = state}

StatusesOf ==
  [g \in Gateway |-> [state \in InvoiceStates |-> {QueryStatus(g, r) : r \in MayAnswer(state)}]]
=============================================================================
