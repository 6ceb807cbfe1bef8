--------------------------- MODULE ProfileService ---------------------------
(***************************************************************************)
(* PATCH requests of profile-service, from the body to the status code:    *)
(* what ValidatePatch lets through, what the columns of table investors    *)
(* make of it, and how concurrent transactions meet on the row locks and   *)
(* on the unique index of e-mails.  Module Outbox goes on from where this  *)
(* one commits.                                                            *)
(*                                                                         *)
(* A patch is a record of what each of its fields holds: "absent", or the  *)
(* class of its value; e-mails that pass the validation are told apart.    *)
(***************************************************************************)
EXTENDS Naturals, FiniteSets

CONSTANTS
  Investors,    \* investor ids
  Emails,       \* e-mails that ValidatePatch takes
  InitEmail,    \* the e-mail of each investor at first
  Requests,     \* handler goroutines, each serving one PATCH after another
  Patches,      \* the bodies they may bring
  MaxVersion    \* bound: versions an investor may reach

Bodies ==
  [body : {"patch", "bad"},
   name : {"absent", "plain", "blank", "long", "overpadded"},
   email : Emails \cup {"absent", "blank", "malformed", "overpadded"},
   risk : {"absent", "allowed", "other"},
   kyc : {"absent", "allowed", "other"},
   value : {"absent", "decimal", "negative", "garbage", "NaN", "Infinity",
            "hex", "huge"},
   prefs : {"absent", "json", "nul"}]

Empty == [body |-> "patch", name |-> "absent", email |-> "absent",
          risk |-> "absent", kyc |-> "absent", value |-> "absent",
          prefs |-> "absent"]

\* Too large, not JSON, an unknown field or a field of the wrong type.
BadBody == [Empty EXCEPT !.body = "bad"]

ASSUME ProfileServiceAssumption ==
  /\ InitEmail \in [Investors -> Emails]
  /\ \A i, j \in Investors : i # j => InitEmail[i] # InitEmail[j]
  /\ Patches \subseteq Bodies
  /\ MaxVersion \in Nat \ {0}
  /\ {"unknown", "malformed", ""} \cap Investors = {}
  /\ IsFiniteSet(Requests)

VARIABLES
  row,          \* row[i]: the committed row of investor i
  events,       \* the committed outbox rows
  pc,           \* pc[r]: what request r is at
  key,          \* key[r]: the id in its URL
  patch,        \* patch[r]: its body
  new,          \* new[r]: the row its open transaction has written
  reply,        \* reply[r]: its status code, 0 before it has one
  profile       \* profile[r]: the profile in its answer

vars == <<row, events, pc, key, patch, new, reply, profile>>

Ids == Investors \cup {"unknown", "malformed"}
NoKey == ""
NoRow == [inv |-> NoKey, email |-> "", value |-> "", ver |-> 0]

Init ==
  /\ row = [i \in Investors |-> [inv |-> i, email |-> InitEmail[i],
                                 value |-> "decimal", ver |-> 1]]
  /\ events = {}
  /\ pc = [r \in Requests |-> "idle"]
  /\ key = [r \in Requests |-> NoKey]
  /\ patch = [r \in Requests |-> Empty]
  /\ new = [r \in Requests |-> NoRow]
  /\ reply = [r \in Requests |-> 0]
  /\ profile = [r \in Requests |-> NoRow]

-----------------------------------------------------------------------------
(* What the code and the columns accept                                    *)

\* ValidatePatch.  ParseFloat also takes NaN, infinities and hexadecimal
\* notation, and NaN < 0 is false.
Valid(p) ==
  /\ p # Empty
  /\ p.name \notin {"blank", "long"}
  /\ p.email \notin {"blank", "malformed"}
  /\ p.risk # "other"
  /\ p.kyc # "other"
  /\ p.value \notin {"negative", "garbage"}

\* Faulty: portfolio_value is a column of text.
UnstorableText(p) ==
  p.name = "overpadded" \/ p.email = "overpadded" \/ p.prefs = "nul"

\* What PostgreSQL cannot cast or store: text that is too long with the white
\* space that ValidatePatch trimmed, numbers beyond DECIMAL(18,2), \u0000 in
\* JSONB.  numeric has a NaN.
Unstorable(p) ==
  \/ p.name = "overpadded"
  \/ p.email = "overpadded"
  \/ p.value \in {"Infinity", "hex", "huge"}
  \/ p.prefs = "nul"

Or(field, old) == IF field = "absent" THEN old ELSE field

\* The SET clauses and the trigger.
Patched(old, p) == [old EXCEPT !.email = Or(p.email, @),
                               !.value = Or(p.value, @),
                               !.ver = @ + 1]

-----------------------------------------------------------------------------
(* A request                                                               *)

GoTo(r, label) == pc' = [pc EXCEPT ![r] = label]

Answer(r, status) ==
  /\ GoTo(r, "done")
  /\ reply' = [reply EXCEPT ![r] = status]

\* Faulty: an error leaves the transaction open.
FailOpen(r, status) ==
  Answer(r, status) /\ UNCHANGED <<row, events, key, patch, new, profile>>

\* An error is answered; the deferred Rollback ends the transaction.
Fail(r, status) ==
  /\ Answer(r, status)
  /\ new' = [new EXCEPT ![r] = NoRow]
  /\ UNCHANGED <<row, events, key, patch, profile>>

Receive(r, i, p) ==
  /\ pc[r] = "idle"
  /\ i \in Investors =>
       row[i].ver + Cardinality({q \in Requests : key[q] = i}) < MaxVersion
  /\ GoTo(r, "decode")
  /\ key' = [key EXCEPT ![r] = i]
  /\ patch' = [patch EXCEPT ![r] = p]
  /\ UNCHANGED <<row, events, new, reply, profile>>

Refuse(r) ==
  /\ pc[r] = "decode"
  /\ patch[r].body = "bad" \/ ~Valid(patch[r])
  /\ Fail(r, 400)

BeginTx(r) ==
  /\ pc[r] = "decode"
  /\ patch[r].body # "bad" /\ Valid(patch[r])
  /\ GoTo(r, "update")
  /\ UNCHANGED <<row, events, key, patch, new, reply, profile>>

\* UPDATE finds no row; an id that is no UUID does not get that far.
NoSuchInvestor(r) ==
  /\ pc[r] = "update"
  /\ key[r] = "unknown"
  /\ Fail(r, 404)

CastFails(r) ==
  /\ pc[r] = "update"
  /\ key[r] = "malformed" \/ Unstorable(patch[r])
  /\ Fail(r, 500)

Writing(q) == new[q] # NoRow

\* Transactions that hold the row r is to update.
RowHolders(r) == {q \in Requests \ {r} : new[q].inv = key[r]}

WritesRow(r) ==
  /\ pc[r] = "update"
  /\ key[r] \in Investors
  /\ ~Unstorable(patch[r])
  /\ new' = [new EXCEPT ![r] = Patched(row[key[r]], patch[r])]
  /\ GoTo(r, "index")
  /\ UNCHANGED <<row, events, key, patch, reply, profile>>

\* Faulty: the row is written without waiting for its lock.
UpdateUnlocked(r) == WritesRow(r)

\* UPDATE has the row to itself and starts from what is committed.
Update(r) == RowHolders(r) = {} /\ WritesRow(r)

MovesEmail(r) == new[r].email # row[key[r]].email

\* Open transactions that may still take the new e-mail of r or give it up.
EmailHolders(r) ==
  {q \in Requests \ {r} :
     /\ Writing(q)
     /\ \/ row[new[q].inv].email = new[r].email
        \/ pc[q] \in {"event", "commit"} /\ new[q].email = new[r].email}

EmailTaken(r) == \E j \in Investors \ {key[r]} : row[j].email = new[r].email

\* Faulty: an e-mail that an open transaction writes counts as taken.
EmailExistsUncommitted(r) ==
  /\ pc[r] = "index"
  /\ MovesEmail(r)
  /\ EmailHolders(r) # {} \/ EmailTaken(r)
  /\ Fail(r, 409)

\* unique_violation: ErrEmailExists.
EmailExists(r) ==
  /\ pc[r] = "index"
  /\ MovesEmail(r)
  /\ EmailHolders(r) = {}
  /\ EmailTaken(r)
  /\ Fail(r, 409)

\* Faulty: the index sees committed rows only.
IndexUnwaiting(r) ==
  /\ pc[r] = "index"
  /\ MovesEmail(r) => ~EmailTaken(r)
  /\ GoTo(r, "event")
  /\ UNCHANGED <<row, events, key, patch, new, reply, profile>>

\* The row gets its entry in the index of e-mails.
Index(r) ==
  /\ pc[r] = "index"
  /\ MovesEmail(r) => EmailHolders(r) = {} /\ ~EmailTaken(r)
  /\ GoTo(r, "event")
  /\ UNCHANGED <<row, events, key, patch, new, reply, profile>>

\* Faulty: the event is inserted outside the transaction.
AddEventAtOnce(r) ==
  /\ pc[r] = "event"
  /\ GoTo(r, "commit")
  /\ events' = events \cup {[inv |-> key[r], ver |-> new[r].ver]}
  /\ UNCHANGED <<row, key, patch, new, reply, profile>>

\* AddEvent, for the version that UPDATE returned.
AddEvent(r) ==
  /\ pc[r] = "event"
  /\ GoTo(r, "commit")
  /\ UNCHANGED <<row, events, key, patch, new, reply, profile>>

\* COMMIT.  Its acknowledgement may be lost.
Commit(r) ==
  /\ pc[r] = "commit"
  /\ row' = [row EXCEPT ![key[r]] = new[r]]
  /\ events' = events \cup {[inv |-> key[r], ver |-> new[r].ver]}
  /\ new' = [new EXCEPT ![r] = NoRow]
  /\ \/ Answer(r, 200) /\ profile' = [profile EXCEPT ![r] = new[r]]
     \/ Answer(r, 500) /\ UNCHANGED profile
  /\ UNCHANGED <<key, patch>>

\* The database fails, the client hangs up, or the process is stopped.
Interrupted(r) == pc[r] \in {"update", "index", "event", "commit"} /\ Fail(r, 500)

Respond(r) ==
  /\ pc[r] = "done"
  /\ GoTo(r, "idle")
  /\ key' = [key EXCEPT ![r] = NoKey]
  /\ patch' = [patch EXCEPT ![r] = Empty]
  /\ reply' = [reply EXCEPT ![r] = 0]
  /\ profile' = [profile EXCEPT ![r] = NoRow]
  /\ UNCHANGED <<row, events, new>>

-----------------------------------------------------------------------------
(* Deadlocks                                                               *)

WaitsFor(r) ==
  CASE pc[r] = "update" -> RowHolders(r)
    [] pc[r] = "index" /\ MovesEmail(r) -> EmailHolders(r)
    [] OTHER -> {}

Stuck(S) == S # {} /\ \A q \in S : WaitsFor(q) \cap S # {}

\* PostgreSQL's detector aborts one of the transactions that wait for each
\* other in a circle.
Deadlocked(r) ==
  /\ \E S \in SUBSET Requests :
       /\ r \in S
       /\ Stuck(S)
       /\ \A T \in SUBSET S : Stuck(T) => T = S
  /\ Fail(r, 500)

-----------------------------------------------------------------------------
Handle(r) ==
  \/ Refuse(r) \/ BeginTx(r)
  \/ NoSuchInvestor(r) \/ CastFails(r) \/ Update(r)
  \/ EmailExists(r) \/ Index(r)
  \/ AddEvent(r) \/ Commit(r)
  \/ Deadlocked(r)
  \/ Respond(r)

Next ==
  \E r \in Requests :
    \/ \E i \in Ids, p \in Patches : Receive(r, i, p)
    \/ Handle(r)
    \/ Interrupted(r)

Spec == Init /\ [][Next]_vars

\* What can go on does (that PostgreSQL answers or fails is assumed, UpdateProfile
\* sets no deadline), the deadlock detector runs, and locks are granted in the
\* order of their queue: one who waits is not overtaken for ever.
FairSpec ==
  /\ Spec
  /\ \A r \in Requests : /\ WF_vars(Handle(r))
                         /\ SF_vars(Update(r))
                         /\ SF_vars(Index(r) \/ EmailExists(r))

-----------------------------------------------------------------------------
Rows == [inv : Investors, email : Emails, value : {"decimal", "NaN"},
         ver : 1..MaxVersion]

\* The variables' possible values.
TypeOK ==
  /\ row \in [Investors -> Rows]
  /\ events \subseteq [inv : Investors, ver : 2..MaxVersion]
  /\ pc \in [Requests -> {"idle", "decode", "update", "index", "event",
                          "commit", "done"}]
  /\ key \in [Requests -> Ids \cup {NoKey}]
  /\ patch \in [Requests -> Patches \cup {Empty}]
  /\ new \in [Requests -> Rows \cup {NoRow}]
  /\ reply \in [Requests -> {0, 200, 400, 404, 409, 500}]
  /\ profile \in [Requests -> Rows \cup {NoRow}]

\* No two investors get the same e-mail, though two PATCHes may write it at the
\* same time and neither validates it against the table.
UniqueEmails ==
  \A i, j \in Investors : i # j => row[i].email # row[j].email

\* A 200 stands for a version that was announced in the outbox, with the e-mail
\* of the patch in it, and that no other PATCH has overwritten without a
\* version of its own: no update is lost.
AnswersAreKept ==
  \A r \in Requests : reply[r] = 200 =>
    /\ [inv |-> key[r], ver |-> profile[r].ver] \in events
    /\ patch[r].email \in {"absent", profile[r].email}
    /\ row[key[r]].ver > profile[r].ver \/ row[key[r]] = profile[r]

NamesConflict ==
  \A r \in Requests : reply[r] # 409 /\ reply'[r] = 409 =>
    \E j \in Investors \ {key[r]} : row[j].email = patch[r].email

\* A 409 is only given for an e-mail that another investor has: not for one
\* that a PATCH writes which then fails.
ConflictsAreReal == [][NamesConflict]_vars

\* Every PATCH is answered: none waits for ever for a row or an e-mail, even if
\* two of them swap the e-mails of two investors.
EveryPatchEnds == \A r \in Requests : pc[r] # "idle" ~> pc[r] = "idle"

\* The write side as module Notification sees it, with nothing published yet.
Writer ==
  INSTANCE Notification WITH
    Partitions <- {1},
    PartitionOf <- [i \in Investors |-> 1],
    version <- [i \in Investors |-> row[i].ver],
    owed <- events,
    topic <- <<<<>>>>

\* Versions change one by one and each leaves its event: refused, failed,
\* interrupted and deadlocked PATCHes leave no trace.
ImplementsNotification == Writer!NSpec

\* What ValidatePatch says of portfolio_value: it "must be a decimal number".
PortfolioIsADecimal == \A i \in Investors : row[i].value = "decimal"
=============================================================================
