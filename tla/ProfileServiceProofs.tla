------------------------ MODULE ProfileServiceProofs ------------------------
(***************************************************************************)
(* Proofs about module ProfileService, for any investors, e-mails,         *)
(* requests and patches: e-mails stay unique, no update is lost, a 409     *)
(* names a real conflict, and the module implements Notification.          *)
(***************************************************************************)
EXTENDS ProfileService, FiniteSetTheorems, TLAPS

-----------------------------------------------------------------------------
(* The invariant                                                           *)

TextOrClass == Emails \cup {"absent", "blank", "malformed", "overpadded", ""}
ValueClass == {"absent", "decimal", "negative", "garbage", "NaN", "Infinity",
               "hex", "huge", ""}

\* A row, with no more said of its e-mail and value than the proofs need.
AnyRow == [inv : Investors \cup {NoKey}, email : TextOrClass, value : ValueClass,
           ver : Nat]

Shapes ==
  /\ row \in [Investors -> AnyRow]
  /\ pc \in [Requests -> {"idle", "decode", "update", "index", "event",
                          "commit", "done"}]
  /\ key \in [Requests -> Ids \cup {NoKey}]
  /\ patch \in [Requests -> Bodies]
  /\ new \in [Requests -> AnyRow]
  /\ reply \in [Requests -> {0, 200, 400, 404, 409, 500}]
  /\ profile \in [Requests -> AnyRow]
  /\ \A i \in Investors : row[i].inv = i

\* Requests between their UPDATE and the end of their transaction, and those
\* whose new e-mail is in the index.
Holds(r) == pc[r] \in {"index", "event", "commit"}
Indexed(r) == pc[r] \in {"event", "commit"}

\* A transaction that has written a row started from what is committed still,
\* for it is alone with the row.
RowLocks ==
  \A r \in Requests :
    /\ ~Holds(r) => new[r] = NoRow
    /\ Holds(r) => /\ key[r] \in Investors
                   /\ new[r] = Patched(row[key[r]], patch[r])
                   /\ \A q \in Requests \ {r} : Holds(q) => key[q] # key[r]

\* An e-mail in the index is nobody else's, committed or not.
IndexIsUnique ==
  \A r \in Requests : Indexed(r) =>
    /\ \A j \in Investors \ {key[r]} : row[j].email # new[r].email
    /\ \A q \in Requests \ {r} : Indexed(q) => new[q].email # new[r].email

\* Only an answered request has a status code.
AnswersAreDone ==
  \A r \in Requests : /\ reply[r] # 0 => pc[r] = "done"
                      /\ reply[r] = 200 => key[r] \in Investors

PInv ==
  /\ Shapes
  /\ RowLocks
  /\ IndexIsUnique
  /\ UniqueEmails
  /\ AnswersAreDone
  /\ AnswersAreKept

-----------------------------------------------------------------------------
(* What each step keeps                                                    *)

\* A row that is none has the shape of one.
LEMMA NoRowShape == NoRow \in AnyRow
BY DEF NoRow, AnyRow, NoKey, TextOrClass, ValueClass

\* What UPDATE makes of a row, field by field.
LEMMA PatchedShape ==
  ASSUME NEW old \in AnyRow, NEW p \in Bodies
  PROVE  /\ Patched(old, p) \in AnyRow
         /\ Patched(old, p).inv = old.inv
         /\ Patched(old, p).ver = old.ver + 1
         /\ Patched(old, p).email = IF p.email = "absent" THEN old.email ELSE p.email
         /\ old.ver \in Nat
<1> DEFINE e == Or(p.email, old.email)
           v == Or(p.value, old.value)
<1>1. /\ old \in [inv : Investors \cup {NoKey}, email : TextOrClass,
                  value : ValueClass, ver : Nat]
      /\ p.email \in TextOrClass /\ p.value \in ValueClass
  BY DEF AnyRow, Bodies, TextOrClass, ValueClass
<1>2. e \in TextOrClass /\ v \in ValueClass
  BY <1>1 DEF Or
<1>3. Patched(old, p) = [inv |-> old.inv, email |-> e, value |-> v, ver |-> old.ver + 1]
  <2> DEFINE a == [old EXCEPT !.email = e]
             b == [a EXCEPT !.value = v]
  <2>1. Patched(old, p) = [b EXCEPT !.ver = old.ver + 1]
    BY Zenon DEF Patched
  <2> HIDE DEF e, v
  <2>2. a = [inv |-> old.inv, email |-> e, value |-> old.value, ver |-> old.ver]
    BY <1>1
  <2> HIDE DEF a
  <2>3. b = [inv |-> old.inv, email |-> e, value |-> v, ver |-> old.ver]
    BY <2>2
  <2> HIDE DEF b
  <2> QED
    BY <2>1, <2>3
<1>4. e = IF p.email = "absent" THEN old.email ELSE p.email
  BY DEF Or
<1> HIDE DEF e, v
<1> QED
  BY <1>1, <1>2, <1>3, <1>4 DEF AnyRow

\* No request is open at first and the e-mails are distinct.
LEMMA InitPInv == Init => PInv
<1> SUFFICES ASSUME Init PROVE PInv
  OBVIOUS
<1>1. Shapes
  <2>1. Empty \in Bodies
    BY DEF Empty, Bodies
  <2>2. row \in [Investors -> AnyRow] /\ \A i \in Investors : row[i].inv = i
    BY ProfileServiceAssumption
    DEF ProfileServiceAssumption, Init, AnyRow, TextOrClass, ValueClass
  <2> QED
    BY <2>1, <2>2, NoRowShape DEF Init, Shapes
<1>2. UniqueEmails
  BY ProfileServiceAssumption DEF ProfileServiceAssumption, Init, UniqueEmails
<1>3. RowLocks /\ IndexIsUnique
  BY DEF Init, RowLocks, IndexIsUnique, Holds, Indexed
<1>4. AnswersAreDone /\ AnswersAreKept
  <2>1. \A r \in Requests : reply[r] = 0
    BY DEF Init
  <2>2. 0 # 200
    OBVIOUS
  <2>3. \A r \in Requests : reply[r] # 200
    BY Zenon, <2>1, <2>2
  <2>4. AnswersAreDone
    BY <2>1, <2>3 DEF AnswersAreDone
  <2>5. AnswersAreKept
    BY <2>3 DEF AnswersAreKept
  <2> QED
    BY <2>4, <2>5
<1> QED
  BY <1>1, <1>2, <1>3, <1>4 DEF PInv

\* A step of r that commits nothing: it goes to l, what it brings there is in
\* order, and nobody else notices.
Quiet(r, l) ==
  /\ pc' = [pc EXCEPT ![r] = l]
  /\ row' = row /\ events' = events
  /\ \A q \in Requests \ {r} :
       /\ key'[q] = key[q] /\ patch'[q] = patch[q] /\ new'[q] = new[q]
       /\ reply'[q] = reply[q] /\ profile'[q] = profile[q]
  /\ l \notin {"index", "event", "commit"} => new'[r] = NoRow
  /\ l \in {"index", "event", "commit"} =>
       /\ key'[r] \in Investors
       /\ new'[r] = Patched(row[key'[r]], patch'[r])
       /\ \A q \in Requests \ {r} : Holds(q) => key[q] # key'[r]
  /\ l \in {"event", "commit"} =>
       /\ \A j \in Investors \ {key'[r]} : row[j].email # new'[r].email
       /\ \A q \in Requests \ {r} : Indexed(q) => new[q].email # new'[r].email
  /\ reply'[r] # 0 => l = "done"
  /\ reply'[r] # 200

\* Such a step keeps the invariant.
LEMMA RequestStep ==
  ASSUME PInv, Shapes', NEW r \in Requests,
         NEW l \in {"idle", "decode", "update", "index", "event", "commit", "done"},
         Quiet(r, l)
  PROVE  PInv'
<1> USE DEF Quiet
<1>1. \A q \in Requests : pc'[q] = IF q = r THEN l ELSE pc[q]
  BY DEF PInv, Shapes
<1>2. \A q \in Requests \ {r} :
        Holds(q)' = Holds(q) /\ Indexed(q)' = Indexed(q)
  BY <1>1 DEF Holds, Indexed
<1>3. /\ Holds(r)' <=> l \in {"index", "event", "commit"}
      /\ Indexed(r)' <=> l \in {"event", "commit"}
  BY <1>1 DEF Holds, Indexed
<1>4. RowLocks'
  <2> SUFFICES ASSUME NEW q \in Requests
               PROVE  /\ ~Holds(q)' => new'[q] = NoRow
                      /\ Holds(q)' =>
                           /\ key'[q] \in Investors
                           /\ new'[q] = Patched(row[key'[q]], patch'[q])
                           /\ \A p \in Requests \ {q} : Holds(p)' => key'[p] # key'[q]
    BY DEF RowLocks, Patched, Or
  <2>1. CASE q = r
    BY <1>2, <1>3, <2>1
  <2>2. CASE q # r
    BY <1>2, <1>3, <2>2 DEF PInv, RowLocks
  <2> QED
    BY <2>1, <2>2
<1>5. IndexIsUnique'
  <2> SUFFICES ASSUME NEW q \in Requests, Indexed(q)'
               PROVE  /\ \A j \in Investors \ {key'[q]} : row[j].email # new'[q].email
                      /\ \A p \in Requests \ {q} :
                           Indexed(p)' => new'[p].email # new'[q].email
    BY DEF IndexIsUnique
  <2>1. CASE q = r
    BY <1>2, <1>3, <2>1
  <2>2. CASE q # r
    BY <1>2, <1>3, <2>2 DEF PInv, IndexIsUnique
  <2> QED
    BY <2>1, <2>2
<1>6. UniqueEmails' /\ AnswersAreDone'
  BY <1>1 DEF PInv, UniqueEmails, AnswersAreDone
<1>7. AnswersAreKept'
  BY DEF PInv, AnswersAreKept
<1> QED
  BY <1>4, <1>5, <1>6, <1>7 DEF PInv

\* An error gives up row and e-mail.
LEMMA FailStep ==
  ASSUME PInv, NEW r \in Requests, NEW s \in {400, 404, 409, 500}, Fail(r, s)
  PROVE  PInv'
<1>1. /\ pc' = [pc EXCEPT ![r] = "done"]
      /\ reply' = [reply EXCEPT ![r] = s]
      /\ new' = [new EXCEPT ![r] = NoRow]
      /\ UNCHANGED <<row, events, key, patch, profile>>
  BY DEF Fail, Answer, GoTo
<1>2. Shapes'
  BY <1>1, NoRowShape DEF PInv, Shapes
<1>3. new'[r] = NoRow /\ reply'[r] = s
  BY <1>1 DEF PInv, Shapes
<1>4. \A q \in Requests \ {r} :
        /\ key'[q] = key[q] /\ patch'[q] = patch[q] /\ new'[q] = new[q]
        /\ reply'[q] = reply[q] /\ profile'[q] = profile[q]
  BY <1>1 DEF PInv, Shapes
<1>5. Quiet(r, "done")
  BY <1>1, <1>3, <1>4 DEF Quiet
<1> QED
  BY <1>2, <1>5, RequestStep

\* UPDATE starts from the committed row and has it to itself.
LEMMA UpdateStep ==
  ASSUME PInv, NEW r \in Requests, Update(r)
  PROVE  PInv'
<1> DEFINE n == Patched(row[key[r]], patch[r])
<1>1. /\ pc[r] = "update" /\ key[r] \in Investors
      /\ new' = [new EXCEPT ![r] = n]
      /\ pc' = [pc EXCEPT ![r] = "index"]
      /\ UNCHANGED <<row, events, key, patch, reply, profile>>
      /\ RowHolders(r) = {}
  BY DEF Update, WritesRow, GoTo
<1>2. n \in AnyRow
  BY <1>1, PatchedShape DEF PInv, Shapes
<1>3. Shapes'
  BY <1>1, <1>2 DEF PInv, Shapes
<1>4. new'[r] = n
  BY <1>1 DEF PInv, Shapes
<1>5. ASSUME NEW q \in Requests \ {r}, Holds(q) PROVE key[q] # key[r]
  <2>1. key[q] \in Investors /\ new[q] = Patched(row[key[q]], patch[q])
    BY <1>5 DEF PInv, RowLocks
  <2>2. row[key[q]] \in AnyRow /\ patch[q] \in Bodies /\ row[key[q]].inv = key[q]
    BY <2>1 DEF PInv, Shapes
  <2>4. new[q].inv = key[q]
    BY <2>1, <2>2, PatchedShape
  <2>3. new[q].inv # key[r]
    BY <1>1 DEF RowHolders
  <2> QED
    BY <2>4, <2>3
<1>6. reply'[r] = 0
  BY <1>1 DEF PInv, AnswersAreDone
<1>7. \A q \in Requests \ {r} :
        /\ key'[q] = key[q] /\ patch'[q] = patch[q] /\ new'[q] = new[q]
        /\ reply'[q] = reply[q] /\ profile'[q] = profile[q]
  BY <1>1 DEF PInv, Shapes
<1> HIDE DEF n
<1>8. key'[r] = key[r] /\ new'[r] = Patched(row[key'[r]], patch'[r])
  BY <1>1, <1>4 DEF n
<1>9. Quiet(r, "index")
  BY <1>1, <1>5, <1>6, <1>7, <1>8 DEF Quiet
<1> QED
  BY <1>3, <1>9, RequestStep

\* A new request brings nothing that the invariant is about.
LEMMA ReceiveStep ==
  ASSUME PInv, NEW r \in Requests, NEW i \in Ids, NEW p \in Patches, Receive(r, i, p)
  PROVE  PInv'
<1>1. /\ pc[r] = "idle"
      /\ pc' = [pc EXCEPT ![r] = "decode"]
      /\ key' = [key EXCEPT ![r] = i]
      /\ patch' = [patch EXCEPT ![r] = p]
      /\ UNCHANGED <<row, events, new, reply, profile>>
  BY DEF Receive, GoTo
<1>2. p \in Bodies
  BY ProfileServiceAssumption DEF ProfileServiceAssumption
<1>3. Shapes'
  BY <1>1, <1>2 DEF PInv, Shapes
<1>4. new'[r] = NoRow
  BY <1>1 DEF PInv, RowLocks, Holds
<1>5. reply'[r] = 0
  BY <1>1 DEF PInv, AnswersAreDone
<1>6. \A q \in Requests \ {r} :
        /\ key'[q] = key[q] /\ patch'[q] = patch[q] /\ new'[q] = new[q]
        /\ reply'[q] = reply[q] /\ profile'[q] = profile[q]
  BY <1>1 DEF PInv, Shapes
<1>7. Quiet(r, "decode")
  BY <1>1, <1>4, <1>5, <1>6 DEF Quiet
<1> QED
  BY <1>3, <1>7, RequestStep

\* A transaction has written nothing when it begins.
LEMMA BeginTxStep ==
  ASSUME PInv, NEW r \in Requests, BeginTx(r)
  PROVE  PInv'
<1>1. /\ pc[r] = "decode"
      /\ pc' = [pc EXCEPT ![r] = "update"]
      /\ UNCHANGED <<row, events, key, patch, new, reply, profile>>
  BY DEF BeginTx, GoTo
<1>2. Shapes'
  BY <1>1 DEF PInv, Shapes
<1>3. new'[r] = NoRow
  BY <1>1 DEF PInv, RowLocks, Holds
<1>4. reply'[r] = 0
  BY <1>1 DEF PInv, AnswersAreDone
<1>5. Quiet(r, "update")
  BY <1>1, <1>3, <1>4 DEF Quiet
<1> QED
  BY <1>2, <1>5, RequestStep

\* A request that was answered holds nothing.
LEMMA RespondStep ==
  ASSUME PInv, NEW r \in Requests, Respond(r)
  PROVE  PInv'
<1>1. /\ pc[r] = "done"
      /\ pc' = [pc EXCEPT ![r] = "idle"]
      /\ key' = [key EXCEPT ![r] = NoKey]
      /\ patch' = [patch EXCEPT ![r] = Empty]
      /\ reply' = [reply EXCEPT ![r] = 0]
      /\ profile' = [profile EXCEPT ![r] = NoRow]
      /\ UNCHANGED <<row, events, new>>
  BY DEF Respond, GoTo
<1>2. Empty \in Bodies
  BY DEF Empty, Bodies
<1>3. Shapes'
  BY <1>1, <1>2, NoRowShape DEF PInv, Shapes
<1>4. new'[r] = NoRow
  BY <1>1 DEF PInv, RowLocks, Holds
<1>5. reply'[r] = 0
  BY <1>1 DEF PInv, Shapes
<1>6. \A q \in Requests \ {r} :
        /\ key'[q] = key[q] /\ patch'[q] = patch[q] /\ new'[q] = new[q]
        /\ reply'[q] = reply[q] /\ profile'[q] = profile[q]
  BY <1>1 DEF PInv, Shapes
<1>7. Quiet(r, "idle")
  BY <1>1, <1>4, <1>5, <1>6 DEF Quiet
<1> QED
  BY <1>3, <1>7, RequestStep

\* What an open transaction has written.
LEMMA Written ==
  ASSUME PInv, NEW q \in Requests, Holds(q)
  PROVE  /\ key[q] \in Investors
         /\ row[key[q]] \in AnyRow /\ row[key[q]].inv = key[q]
         /\ patch[q] \in Bodies
         /\ new[q] = Patched(row[key[q]], patch[q])
         /\ new[q] \in AnyRow
         /\ new[q].inv = key[q]
         /\ new[q].ver = row[key[q]].ver + 1
         /\ new[q].email = IF patch[q].email = "absent" THEN row[key[q]].email
                                                       ELSE patch[q].email
         /\ new[q] # NoRow
<1>1. key[q] \in Investors /\ new[q] = Patched(row[key[q]], patch[q])
  BY DEF PInv, RowLocks
<1>2. /\ row[key[q]] \in AnyRow /\ row[key[q]].inv = key[q]
      /\ patch[q] \in Bodies
  BY <1>1 DEF PInv, Shapes
<1>3. /\ Patched(row[key[q]], patch[q]) \in AnyRow
      /\ Patched(row[key[q]], patch[q]).inv = row[key[q]].inv
      /\ Patched(row[key[q]], patch[q]).ver = row[key[q]].ver + 1
      /\ Patched(row[key[q]], patch[q]).email =
           IF patch[q].email = "absent" THEN row[key[q]].email ELSE patch[q].email
  BY <1>2, PatchedShape
<1>4. new[q].inv # ""
  BY <1>1, <1>2, <1>3, ProfileServiceAssumption DEF ProfileServiceAssumption
<1>5. new[q] # NoRow
  <2>1. NoRow.inv = ""
    BY DEF NoRow, NoKey
  <2> QED
    BY <1>4, <2>1
<1> QED
  BY <1>1, <1>2, <1>3, <1>5

\* The index lets an e-mail in that nobody has, takes or may take back.
LEMMA IndexStep ==
  ASSUME PInv, NEW r \in Requests, Index(r)
  PROVE  PInv'
<1>1. /\ pc[r] = "index"
      /\ MovesEmail(r) => EmailHolders(r) = {} /\ ~EmailTaken(r)
      /\ pc' = [pc EXCEPT ![r] = "event"]
      /\ UNCHANGED <<row, events, key, patch, new, reply, profile>>
  BY DEF Index, GoTo
<1>2. Shapes'
  BY <1>1 DEF PInv, Shapes
<1>3. Holds(r)
  BY <1>1 DEF Holds
<1>4. reply'[r] = 0
  BY <1>1 DEF PInv, AnswersAreDone
<1>5. ASSUME NEW j \in Investors \ {key[r]} PROVE row[j].email # new[r].email
  <2>1. CASE MovesEmail(r)
    BY <1>1, <2>1 DEF EmailTaken
  <2>2. CASE ~MovesEmail(r)
    BY <1>3, <2>2, Written DEF MovesEmail, PInv, UniqueEmails
  <2> QED
    BY <2>1, <2>2
<1>6. ASSUME NEW q \in Requests \ {r}, Indexed(q) PROVE new[q].email # new[r].email
  <2>1. Holds(q)
    BY <1>6 DEF Holds, Indexed
  <2>2. new[q] # NoRow
    BY <2>1, Written
  <2>3. key[q] # key[r] /\ key[r] \in Investors
    BY <1>3, <2>1 DEF PInv, RowLocks
  <2>4. CASE MovesEmail(r)
    BY <1>1, <1>6, <2>2, <2>4 DEF EmailHolders, Writing, Indexed
  <2>5. CASE ~MovesEmail(r)
    BY <1>6, <2>3, <2>5 DEF MovesEmail, PInv, IndexIsUnique
  <2> QED
    BY <2>4, <2>5
<1>7. /\ key[r] \in Investors /\ new[r] = Patched(row[key[r]], patch[r])
      /\ \A q \in Requests \ {r} : Holds(q) => key[q] # key[r]
  BY <1>3 DEF PInv, RowLocks
<1>8. Quiet(r, "event")
  BY <1>1, <1>4, <1>5, <1>6, <1>7 DEF Quiet
<1> QED
  BY <1>2, <1>8, RequestStep

\* The event is seen by nobody before COMMIT.
LEMMA AddEventStep ==
  ASSUME PInv, NEW r \in Requests, AddEvent(r)
  PROVE  PInv'
<1>1. /\ pc[r] = "event"
      /\ pc' = [pc EXCEPT ![r] = "commit"]
      /\ UNCHANGED <<row, events, key, patch, new, reply, profile>>
  BY DEF AddEvent, GoTo
<1>2. Shapes'
  BY <1>1 DEF PInv, Shapes
<1>3. Holds(r) /\ Indexed(r)
  BY <1>1 DEF Holds, Indexed
<1>4. reply'[r] = 0
  BY <1>1 DEF PInv, AnswersAreDone
<1>5. /\ \A j \in Investors \ {key[r]} : row[j].email # new[r].email
      /\ \A q \in Requests \ {r} : Indexed(q) => new[q].email # new[r].email
  BY <1>3 DEF PInv, IndexIsUnique
<1>6. /\ key[r] \in Investors /\ new[r] = Patched(row[key[r]], patch[r])
      /\ \A q \in Requests \ {r} : Holds(q) => key[q] # key[r]
  BY <1>3 DEF PInv, RowLocks
<1>7. Quiet(r, "commit")
  BY <1>1, <1>4, <1>5, <1>6 DEF Quiet
<1> QED
  BY <1>2, <1>7, RequestStep

\* COMMIT.  Nobody else has the row or its e-mail; who was answered before sees
\* his version overtaken.
LEMMA CommitStep ==
  ASSUME PInv, NEW r \in Requests, Commit(r)
  PROVE  PInv'
<1> DEFINE k == key[r]
<1>1. /\ pc[r] = "commit"
      /\ row' = [row EXCEPT ![k] = new[r]]
      /\ events' = events \cup {[inv |-> k, ver |-> new[r].ver]}
      /\ new' = [new EXCEPT ![r] = NoRow]
      /\ pc' = [pc EXCEPT ![r] = "done"]
      /\ UNCHANGED <<key, patch>>
  BY DEF Commit, Answer, GoTo
<1>2. \/ /\ reply' = [reply EXCEPT ![r] = 200]
         /\ profile' = [profile EXCEPT ![r] = new[r]]
      \/ /\ reply' = [reply EXCEPT ![r] = 500]
         /\ profile' = profile
  BY DEF Commit, Answer
<1>3. Holds(r) /\ Indexed(r)
  BY <1>1 DEF Holds, Indexed
<1>4. /\ k \in Investors
      /\ row[k] \in AnyRow /\ new[r] \in AnyRow
      /\ new[r].inv = k
      /\ new[r].ver = row[k].ver + 1
      /\ patch[r].email \in {"absent", new[r].email}
  BY <1>3, Written
<1>5. /\ \A j \in Investors \ {k} : row[j].email # new[r].email
      /\ \A q \in Requests \ {r} : Indexed(q) => new[q].email # new[r].email
  BY <1>3 DEF PInv, IndexIsUnique
<1>6. \A q \in Requests \ {r} : Holds(q) => key[q] # k
  BY <1>3 DEF PInv, RowLocks
<1>7. \A i \in Investors : row'[i] = IF i = k THEN new[r] ELSE row[i]
  BY <1>1, <1>4 DEF PInv, Shapes
<1>8. /\ \A q \in Requests \ {r} :
           /\ key'[q] = key[q] /\ patch'[q] = patch[q] /\ new'[q] = new[q]
           /\ reply'[q] = reply[q] /\ profile'[q] = profile[q]
           /\ Holds(q)' = Holds(q) /\ Indexed(q)' = Indexed(q)
      /\ new'[r] = NoRow /\ pc'[r] = "done"
      /\ ~Holds(r)' /\ ~Indexed(r)'
      /\ key'[r] = k /\ patch'[r] = patch[r]
  BY <1>1, <1>2 DEF PInv, Shapes, Holds, Indexed
<1>9. Shapes'
  <2>1. row' \in [Investors -> AnyRow] /\ \A i \in Investors : row'[i].inv = i
    BY <1>1, <1>4, <1>7 DEF PInv, Shapes
  <2>2. new' \in [Requests -> AnyRow]
    BY <1>1, NoRowShape DEF PInv, Shapes
  <2>3. /\ reply' \in [Requests -> {0, 200, 400, 404, 409, 500}]
        /\ profile' \in [Requests -> AnyRow]
    BY <1>2, <1>4 DEF PInv, Shapes
  <2> QED
    BY <1>1, <2>1, <2>2, <2>3 DEF PInv, Shapes
<1>10. RowLocks'
  <2> SUFFICES ASSUME NEW q \in Requests
               PROVE  /\ ~Holds(q)' => new'[q] = NoRow
                      /\ Holds(q)' =>
                           /\ key'[q] \in Investors
                           /\ new'[q] = Patched(row'[key'[q]], patch'[q])
                           /\ \A p \in Requests \ {q} : Holds(p)' => key'[p] # key'[q]
    BY DEF RowLocks, Patched, Or
  <2>1. CASE q = r
    BY <1>8, <2>1
  <2>2. CASE q # r
    <3>1. ~Holds(q) => new[q] = NoRow
      BY DEF PInv, RowLocks
    <3>2. Holds(q) => /\ key[q] \in Investors
                      /\ new[q] = Patched(row[key[q]], patch[q])
                      /\ \A p \in Requests \ {q} : Holds(p) => key[p] # key[q]
      BY DEF PInv, RowLocks
    <3>3. Holds(q) => row'[key[q]] = row[key[q]]
      BY <1>6, <1>7, <2>2, <3>2
    <3> QED
      BY <1>8, <2>2, <3>1, <3>2, <3>3
  <2> QED
    BY <2>1, <2>2
<1>11. IndexIsUnique'
  <2> SUFFICES ASSUME NEW q \in Requests, Indexed(q)'
               PROVE  /\ \A j \in Investors \ {key'[q]} : row'[j].email # new'[q].email
                      /\ \A p \in Requests \ {q} :
                           Indexed(p)' => new'[p].email # new'[q].email
    BY DEF IndexIsUnique
  <2>1. q # r /\ Indexed(q)
    BY <1>8
  <2>2. /\ \A j \in Investors \ {key[q]} : row[j].email # new[q].email
        /\ \A p \in Requests \ {q} : Indexed(p) => new[p].email # new[q].email
    BY <2>1 DEF PInv, IndexIsUnique
  <2>3. new[q].email # new[r].email
    BY <1>5, <2>1
  <2>4. \A j \in Investors \ {key[q]} : row'[j].email # new[q].email
    BY <1>7, <2>2, <2>3
  <2> QED
    BY <1>8, <2>1, <2>2, <2>4
<1>12. UniqueEmails'
  <2> SUFFICES ASSUME NEW i \in Investors, NEW j \in Investors, i # j
               PROVE  row'[i].email # row'[j].email
    BY DEF UniqueEmails
  <2>1. row[i].email # row[j].email
    BY DEF PInv, UniqueEmails
  <2>2. i # k => row[i].email # new[r].email
    BY <1>5
  <2>3. j # k => row[j].email # new[r].email
    BY <1>5
  <2> QED
    BY <1>7, <2>1, <2>2, <2>3
<1>13. AnswersAreDone'
  <2>1. \A q \in Requests : q # r => pc'[q] = pc[q]
    BY <1>1 DEF PInv, Shapes
  <2> QED
    BY <1>4, <1>8, <2>1 DEF PInv, AnswersAreDone
<1>14. AnswersAreKept'
  <2> SUFFICES ASSUME NEW q \in Requests, reply'[q] = 200
               PROVE  /\ [inv |-> key'[q], ver |-> profile'[q].ver] \in events'
                      /\ patch'[q].email \in {"absent", profile'[q].email}
                      /\ \/ row'[key'[q]].ver > profile'[q].ver
                         \/ row'[key'[q]] = profile'[q]
    BY DEF AnswersAreKept
  <2>1. CASE q = r
    <3>1. profile'[r] = new[r]
      BY <1>2, <2>1 DEF PInv, Shapes
    <3>2. row'[k] = new[r]
      BY <1>4, <1>7
    <3> QED
      BY <1>1, <1>4, <1>8, <2>1, <3>1, <3>2
  <2>2. CASE q # r
    <3>1. /\ reply[q] = 200 /\ key'[q] = key[q] /\ patch'[q] = patch[q]
          /\ profile'[q] = profile[q]
      BY <1>8, <2>2
    <3>2. /\ [inv |-> key[q], ver |-> profile[q].ver] \in events
          /\ patch[q].email \in {"absent", profile[q].email}
          /\ row[key[q]].ver > profile[q].ver \/ row[key[q]] = profile[q]
      BY <3>1 DEF PInv, AnswersAreKept
    <3>3. key[q] \in Investors /\ profile[q] \in AnyRow /\ row[key[q]] \in AnyRow
      BY <3>1 DEF PInv, AnswersAreDone, Shapes
    <3>4. profile[q].ver \in Nat /\ row[key[q]].ver \in Nat
      BY <3>3 DEF AnyRow
    <3>5. \/ row'[key[q]].ver > profile[q].ver
          \/ row'[key[q]] = profile[q]
      <4>1. CASE key[q] = k
        <5>1. row'[key[q]].ver = row[key[q]].ver + 1
          BY <1>4, <1>7, <4>1
        <5>2. row[key[q]].ver >= profile[q].ver
          BY <3>2, <3>4
        <5> QED
          BY <3>4, <5>1, <5>2
      <4>2. CASE key[q] # k
        BY <1>7, <3>2, <3>3, <4>2
      <4> QED
        BY <4>1, <4>2
    <3> QED
      BY <1>1, <3>1, <3>2, <3>5
  <2> QED
    BY <2>1, <2>2
<1> QED
  BY <1>9, <1>10, <1>11, <1>12, <1>13, <1>14 DEF PInv

\* Every step of a handler keeps the invariant.
LEMMA HandleStep ==
  ASSUME PInv, NEW r \in Requests, Handle(r)
  PROVE  PInv'
<1>1. ASSUME NEW s \in {400, 404, 409, 500}, Fail(r, s) PROVE PInv'
  BY <1>1, FailStep
<1>2. CASE Refuse(r)
  BY <1>1, <1>2 DEF Refuse
<1>3. CASE NoSuchInvestor(r)
  BY <1>1, <1>3 DEF NoSuchInvestor
<1>4. CASE CastFails(r)
  BY <1>1, <1>4 DEF CastFails
<1>5. CASE EmailExists(r)
  BY <1>1, <1>5 DEF EmailExists
<1>6. CASE Deadlocked(r)
  BY <1>1, <1>6 DEF Deadlocked
<1> QED
  BY <1>2, <1>3, <1>4, <1>5, <1>6, BeginTxStep, UpdateStep, IndexStep,
     AddEventStep, CommitStep, RespondStep
  DEF Handle

\* So does every step.
LEMMA NextPInv == PInv /\ [Next]_vars => PInv'
<1> SUFFICES ASSUME PInv, [Next]_vars PROVE PInv'
  OBVIOUS
<1>1. ASSUME NEW r \in Requests, NEW i \in Ids, NEW p \in Patches, Receive(r, i, p)
      PROVE  PInv'
  BY <1>1, ReceiveStep
<1>2. ASSUME NEW r \in Requests, Handle(r) PROVE PInv'
  BY <1>2, HandleStep
<1>3. ASSUME NEW r \in Requests, Interrupted(r) PROVE PInv'
  BY <1>3, FailStep DEF Interrupted
<1>4. CASE UNCHANGED vars
  <2>1. Shapes'
    BY <1>4 DEF vars, PInv, Shapes
  <2>2. RowLocks' /\ IndexIsUnique'
    BY <1>4 DEF vars, PInv, RowLocks, IndexIsUnique, Holds, Indexed, Patched, Or
  <2>3. UniqueEmails' /\ AnswersAreDone' /\ AnswersAreKept'
    BY <1>4 DEF vars, PInv, UniqueEmails, AnswersAreDone, AnswersAreKept
  <2> QED
    BY <2>1, <2>2, <2>3 DEF PInv
<1> QED
  BY <1>1, <1>2, <1>3, <1>4 DEF Next

-----------------------------------------------------------------------------
(* Theorems                                                                *)

\* The inductive invariant: locks on rows, e-mails in the index, and the
\* three properties that rest on them.
THEOREM Invariance == Spec => []PInv
<1>1. Init => PInv
  BY InitPInv
<1>2. PInv /\ [Next]_vars => PInv'
  BY NextPInv
<1> QED
  BY <1>1, <1>2, PTL DEF Spec

\* However many PATCHes race for an e-mail, one investor gets it.
THEOREM EmailsStayUnique == Spec => []UniqueEmails
<1>1. PInv => UniqueEmails
  BY DEF PInv
<1> QED
  BY <1>1, Invariance, PTL

\* No answered update is lost, and each has its event.
THEOREM NoLostUpdate == Spec => []AnswersAreKept
<1>1. PInv => AnswersAreKept
  BY DEF PInv
<1> QED
  BY <1>1, Invariance, PTL

\* Only EmailExists answers 409.
LEMMA ConflictStep ==
  ASSUME PInv, Next, NEW q \in Requests, reply[q] # 409, reply'[q] = 409
  PROVE  EmailExists(q)
<1>1. ASSUME NEW r \in Requests, NEW s \in {400, 404, 500}, Answer(r, s) PROVE FALSE
  BY <1>1 DEF Answer, PInv, Shapes
<1>2. ASSUME UNCHANGED reply PROVE FALSE
  BY <1>2
<1>3. ASSUME NEW r \in Requests, NEW i \in Ids, NEW p \in Patches, Receive(r, i, p)
      PROVE  FALSE
  BY <1>2, <1>3 DEF Receive
<1>4. ASSUME NEW r \in Requests, Interrupted(r) PROVE FALSE
  BY <1>1, <1>4 DEF Interrupted, Fail
<1>5. ASSUME NEW r \in Requests, Handle(r) PROVE EmailExists(q)
  <2>1. CASE EmailExists(r)
    <3>1. reply' = [reply EXCEPT ![r] = 409]
      BY <2>1 DEF EmailExists, Fail, Answer
    <3>2. q = r
      BY <3>1 DEF PInv, Shapes
    <3> QED
      BY <2>1, <3>2
  <2>2. CASE Refuse(r)
    BY <1>1, <2>2 DEF Refuse, Fail
  <2>3. CASE NoSuchInvestor(r)
    BY <1>1, <2>3 DEF NoSuchInvestor, Fail
  <2>4. CASE CastFails(r)
    BY <1>1, <2>4 DEF CastFails, Fail
  <2>5. CASE Deadlocked(r)
    BY <1>1, <2>5 DEF Deadlocked, Fail
  <2>6. CASE Commit(r)
    <3>1. Answer(r, 200) \/ Answer(r, 500)
      BY <2>6 DEF Commit
    <3> QED
      BY <3>1 DEF Answer, PInv, Shapes
  <2>7. CASE Respond(r)
    BY <2>7 DEF Respond, PInv, Shapes
  <2>8. CASE BeginTx(r) \/ Update(r) \/ Index(r) \/ AddEvent(r)
    BY <1>2, <2>8 DEF BeginTx, Update, WritesRow, Index, AddEvent
  <2> QED
    BY <1>5, <2>1, <2>2, <2>3, <2>4, <2>5, <2>6, <2>7, <2>8 DEF Handle
<1> QED
  BY <1>3, <1>4, <1>5 DEF Next

\* A 409 names an e-mail that another investor has.
THEOREM ConflictsNamed == Spec => ConflictsAreReal
<1>1. PInv /\ [Next]_vars => [NamesConflict]_vars
  <2> SUFFICES ASSUME PInv, Next, NEW q \in Requests, reply[q] # 409, reply'[q] = 409
               PROVE  \E j \in Investors \ {key[q]} : row[j].email = patch[q].email
    BY DEF NamesConflict
  <2>1. EmailExists(q)
    BY ConflictStep
  <2>2. Holds(q) /\ MovesEmail(q) /\ EmailTaken(q)
    BY <2>1 DEF EmailExists, Holds
  <2>3. new[q].email = patch[q].email
    BY <2>2, Written DEF MovesEmail
  <2> QED
    BY <2>2, <2>3 DEF EmailTaken
<1> QED
  BY <1>1, Invariance, PTL DEF Spec, ConflictsAreReal

-----------------------------------------------------------------------------
(* Types: what the columns hold in the end                                 *)

\* Only what ValidatePatch let through is in a transaction, and what an UPDATE
\* wrote the columns could hold.
Accepted ==
  \A r \in Requests :
    /\ pc[r] = "update" \/ Holds(r) => Valid(patch[r])
    /\ Holds(r) => ~Unstorable(patch[r])

\* Requests that may still give investor i a version.
Incoming(i) == {q \in Requests : key[q] = i /\ pc[q] # "done"}

\* The bound leaves a version to each of them.
VersionsLeft ==
  \A i \in Investors : row[i].ver + Cardinality(Incoming(i)) <= MaxVersion

TInv == PInv /\ TypeOK /\ Accepted /\ VersionsLeft

\* What the table holds of an investor.
LEMMA RowTypes ==
  ASSUME TInv, NEW i \in Investors
  PROVE  /\ row[i] \in Rows /\ MaxVersion \in Nat
         /\ row[i].ver \in 1..MaxVersion /\ row[i].ver \in Nat
<1>1. MaxVersion \in Nat
  BY ProfileServiceAssumption DEF ProfileServiceAssumption
<1>2. row[i] \in Rows
  BY DEF TInv, TypeOK
<1>3. row[i].ver \in 1..MaxVersion
  BY <1>2 DEF Rows
<1> QED
  BY <1>1, <1>2, <1>3

\* There are finitely many requests, and those of an investor are some of them.
LEMMA RequestsFinite ==
  ASSUME NEW S \in SUBSET Requests
  PROVE  IsFiniteSet(S) /\ Cardinality(S) \in Nat
<1>1. IsFiniteSet(S)
  BY FS_Subset, ProfileServiceAssumption DEF ProfileServiceAssumption
<1> QED
  BY <1>1, FS_CardinalityType

\* No step but COMMIT writes the table or the outbox, and as long as no request
\* comes in the bound holds.
LEMMA TableStays ==
  ASSUME TInv, row' = row, \A i \in Investors : Incoming(i)' \subseteq Incoming(i)
  PROVE  VersionsLeft'
<1> SUFFICES ASSUME NEW i \in Investors
             PROVE  row[i].ver + Cardinality(Incoming(i)') <= MaxVersion
  BY DEF VersionsLeft
<1>1. Incoming(i) \in SUBSET Requests /\ Incoming(i)' \in SUBSET Incoming(i)
  BY DEF Incoming
<1>2. /\ IsFiniteSet(Incoming(i)) /\ Cardinality(Incoming(i)) \in Nat
      /\ Cardinality(Incoming(i)') \in Nat
  BY <1>1, RequestsFinite
<1>3. Cardinality(Incoming(i)') <= Cardinality(Incoming(i))
  BY <1>1, <1>2, FS_Subset
<1>4. row[i].ver \in Nat /\ MaxVersion \in Nat
  BY RowTypes
<1>5. row[i].ver + Cardinality(Incoming(i)) <= MaxVersion
  BY DEF TInv, VersionsLeft
<1> QED
  BY <1>2, <1>3, <1>4, <1>5

\* A version is left to a request that is not answered yet.
LEMMA VersionLeft ==
  ASSUME TInv, NEW r \in Requests, key[r] \in Investors, pc[r] # "done"
  PROVE  row[key[r]].ver + 1 \in 2..MaxVersion
<1> DEFINE i == key[r]
<1>1. Incoming(i) \in SUBSET Requests /\ r \in Incoming(i)
  BY DEF Incoming
<1>2. IsFiniteSet(Incoming(i)) /\ Cardinality(Incoming(i)) \in Nat
  BY <1>1, RequestsFinite
<1>3. Cardinality(Incoming(i)) # 0
  BY <1>1, <1>2, FS_EmptySet
<1>4. row[i].ver \in 1..MaxVersion /\ MaxVersion \in Nat
  BY RowTypes
<1>5. row[i].ver + Cardinality(Incoming(i)) <= MaxVersion
  BY DEF TInv, VersionsLeft
<1> HIDE DEF i
<1>6. row[i].ver + 1 \in 2..MaxVersion
  BY <1>2, <1>3, <1>4, <1>5
<1> QED
  BY <1>6 DEF i

\* What UPDATE writes of an accepted patch is a row the table may hold.
LEMMA PatchedRow ==
  ASSUME NEW old \in Rows, NEW p \in Bodies, Valid(p), ~Unstorable(p),
         old.ver + 1 \in 1..MaxVersion
  PROVE  Patched(old, p) \in Rows
<1> DEFINE e == Or(p.email, old.email)
           v == Or(p.value, old.value)
<1>1. e \in Emails
  <2>1. p.email \in Emails \cup {"absent"}
    BY DEF Bodies, Valid, Unstorable
  <2> QED
    BY <2>1 DEF Or, Rows
<1>2. v \in {"decimal", "NaN"}
  <2>1. p.value \in {"absent", "decimal", "NaN"}
    BY DEF Bodies, Valid, Unstorable
  <2> QED
    BY <2>1 DEF Or, Rows
<1>3. Patched(old, p) = [inv |-> old.inv, email |-> e, value |-> v, ver |-> old.ver + 1]
  <2> DEFINE a == [old EXCEPT !.email = e]
             b == [a EXCEPT !.value = v]
  <2>1. Patched(old, p) = [b EXCEPT !.ver = old.ver + 1]
    BY Zenon DEF Patched
  <2> HIDE DEF e, v
  <2>2. a = [inv |-> old.inv, email |-> e, value |-> old.value, ver |-> old.ver]
    BY DEF Rows
  <2> HIDE DEF a
  <2>3. b = [inv |-> old.inv, email |-> e, value |-> v, ver |-> old.ver]
    BY <2>2
  <2> HIDE DEF b
  <2> QED
    BY <2>1, <2>3
<1> HIDE DEF e, v
<1> QED
  BY <1>1, <1>2, <1>3 DEF Rows

\* A step of r to l that commits nothing: r was accepted for l and holds
\* nothing but a row of the table's type.
Typed(r, l) ==
  /\ row' = row /\ events' = events
  /\ pc' = [pc EXCEPT ![r] = l]
  /\ \A q \in Requests \ {r} :
       patch'[q] = patch[q] /\ new'[q] = new[q] /\ profile'[q] = profile[q]
  /\ patch'[r] \in Patches \cup {Empty}
  /\ new'[r] \in Rows \cup {NoRow}
  /\ profile'[r] \in Rows \cup {NoRow}
  /\ l \in {"update", "index", "event", "commit"} => Valid(patch'[r])
  /\ l \in {"index", "event", "commit"} => ~Unstorable(patch'[r])

\* Such a step keeps the types.
LEMMA RequestTypes ==
  ASSUME TInv, PInv', VersionsLeft', NEW r \in Requests,
         NEW l \in {"idle", "decode", "update", "index", "event", "commit", "done"},
         Typed(r, l)
  PROVE  TInv'
<1> USE DEF Typed
<1>1. /\ patch \in [Requests -> Patches \cup {Empty}]
      /\ new \in [Requests -> Rows \cup {NoRow}]
      /\ profile \in [Requests -> Rows \cup {NoRow}]
      /\ pc \in [Requests -> {"idle", "decode", "update", "index", "event",
                              "commit", "done"}]
  BY DEF TInv, TypeOK
<1>2. /\ DOMAIN patch' = Requests /\ DOMAIN new' = Requests
      /\ patch' = [q \in Requests |-> patch'[q]]
      /\ new' = [q \in Requests |-> new'[q]]
      /\ profile' = [q \in Requests |-> profile'[q]]
  BY DEF PInv, Shapes
<1>3. \A q \in Requests : /\ patch'[q] \in Patches \cup {Empty}
                          /\ new'[q] \in Rows \cup {NoRow}
                          /\ profile'[q] \in Rows \cup {NoRow}
  BY <1>1
<1>4. /\ patch' \in [Requests -> Patches \cup {Empty}]
      /\ new' \in [Requests -> Rows \cup {NoRow}]
      /\ profile' \in [Requests -> Rows \cup {NoRow}]
  BY <1>2, <1>3
<1>5. TypeOK'
  BY <1>4 DEF TInv, TypeOK, PInv, Shapes
<1>6. Accepted'
  <2> SUFFICES ASSUME NEW q \in Requests
               PROVE  /\ pc'[q] = "update" \/ Holds(q)' => Valid(patch'[q])
                      /\ Holds(q)' => ~Unstorable(patch'[q])
    BY DEF Accepted, Valid, Unstorable
  <2>1. CASE q = r
    BY <1>1, <2>1 DEF Holds
  <2>2. CASE q # r
    <3>1. pc'[q] = pc[q] /\ patch'[q] = patch[q]
      BY <1>1, <2>2
    <3> QED
      BY <3>1 DEF TInv, Accepted, Holds
  <2> QED
    BY <2>1, <2>2
<1> QED
  BY <1>5, <1>6 DEF TInv

\* The request of a step that answers, or goes on, is not a new one.
LEMMA NoneComesIn ==
  ASSUME TInv, row' = row, NEW r \in Requests, NEW l, l = "done" \/ pc[r] # "done",
         pc' = [pc EXCEPT ![r] = l], key' = key
  PROVE  VersionsLeft'
<1>1. \A q \in Requests : pc'[q] = IF q = r THEN l ELSE pc[q]
  BY DEF TInv, TypeOK
<1>2. \A i \in Investors : Incoming(i)' \subseteq Incoming(i)
  BY <1>1 DEF Incoming
<1> QED
  BY <1>2, TableStays

\* An error leaves neither a row nor an answer.
LEMMA FailTypes ==
  ASSUME TInv, NEW r \in Requests, NEW s \in {400, 404, 409, 500}, Fail(r, s)
  PROVE  TInv'
<1>1. /\ pc' = [pc EXCEPT ![r] = "done"]
      /\ new' = [new EXCEPT ![r] = NoRow]
      /\ row' = row /\ events' = events /\ key' = key /\ patch' = patch
      /\ profile' = profile
  BY DEF Fail, Answer, GoTo
<1>2. PInv'
  BY FailStep DEF TInv
<1>3. VersionsLeft'
  BY <1>1, NoneComesIn
<1>4. /\ new'[r] = NoRow
      /\ \A q \in Requests \ {r} : new'[q] = new[q]
      /\ patch[r] \in Patches \cup {Empty}
      /\ profile[r] \in Rows \cup {NoRow}
  BY <1>1 DEF TInv, TypeOK
<1>5. Typed(r, "done")
  BY <1>1, <1>4 DEF Typed
<1> QED
  BY <1>2, <1>3, <1>5, RequestTypes

\* The bound admits a request only if it leaves it a version.
LEMMA ReceiveTypes ==
  ASSUME TInv, NEW r \in Requests, NEW i \in Ids, NEW p \in Patches, Receive(r, i, p)
  PROVE  TInv'
<1>1. /\ pc[r] = "idle"
      /\ pc' = [pc EXCEPT ![r] = "decode"]
      /\ key' = [key EXCEPT ![r] = i]
      /\ patch' = [patch EXCEPT ![r] = p]
      /\ row' = row /\ events' = events /\ new' = new /\ profile' = profile
      /\ i \in Investors =>
           row[i].ver + Cardinality({q \in Requests : key[q] = i}) < MaxVersion
  BY DEF Receive, GoTo
<1>2. PInv'
  BY ReceiveStep DEF TInv
<1>3. \A q \in Requests : /\ pc'[q] = IF q = r THEN "decode" ELSE pc[q]
                          /\ key'[q] = IF q = r THEN i ELSE key[q]
                          /\ patch'[q] = IF q = r THEN p ELSE patch[q]
  BY <1>1 DEF TInv, TypeOK
<1>4. VersionsLeft'
  <2> SUFFICES ASSUME NEW j \in Investors
               PROVE  row[j].ver + Cardinality(Incoming(j)') <= MaxVersion
    BY <1>1 DEF VersionsLeft
  <2> DEFINE S == {q \in Requests : key[q] = j}
  <2>1. row[j].ver \in Nat /\ MaxVersion \in Nat
    BY RowTypes
  <2>2. /\ Incoming(j) \in SUBSET Requests /\ Incoming(j)' \in SUBSET Requests
        /\ S \in SUBSET Requests
    BY DEF Incoming
  <2>3. /\ IsFiniteSet(Incoming(j)) /\ Cardinality(Incoming(j)) \in Nat
        /\ Cardinality(Incoming(j)') \in Nat
        /\ IsFiniteSet(S) /\ Cardinality(S) \in Nat
    BY <2>2, RequestsFinite
  <2>4. CASE j = i
    <3>1. Incoming(j)' \in SUBSET (S \cup {r})
      BY <1>3, <2>4 DEF Incoming
    <3>2. row[j].ver + Cardinality(S) < MaxVersion
      BY <1>1, <2>4
    <3> HIDE DEF S
    <3>3. /\ IsFiniteSet(S \cup {r})
          /\ Cardinality(S \cup {r}) \in {Cardinality(S), Cardinality(S) + 1}
      BY <2>3, FS_AddElement
    <3>4. Cardinality(Incoming(j)') <= Cardinality(S \cup {r})
      BY <3>1, <3>3, FS_Subset
    <3> QED
      BY <2>1, <2>3, <3>2, <3>3, <3>4
  <2>5. CASE j # i
    <3>1. Incoming(j)' \in SUBSET Incoming(j)
      BY <1>3, <2>5 DEF Incoming
    <3>2. Cardinality(Incoming(j)') <= Cardinality(Incoming(j))
      BY <2>3, <3>1, FS_Subset
    <3>3. row[j].ver + Cardinality(Incoming(j)) <= MaxVersion
      BY DEF TInv, VersionsLeft
    <3> QED
      BY <2>1, <2>3, <3>2, <3>3
  <2> QED
    BY <2>4, <2>5
<1>5. new[r] \in Rows \cup {NoRow} /\ profile[r] \in Rows \cup {NoRow}
  BY DEF TInv, TypeOK
<1>6. Typed(r, "decode")
  BY <1>1, <1>3, <1>5 DEF Typed
<1> QED
  BY <1>2, <1>4, <1>6, RequestTypes

\* UPDATE writes a row of the table's type.
LEMMA UpdateTypes ==
  ASSUME TInv, NEW r \in Requests, Update(r)
  PROVE  TInv'
<1> DEFINE n == Patched(row[key[r]], patch[r])
<1>1. /\ pc[r] = "update" /\ key[r] \in Investors /\ ~Unstorable(patch[r])
      /\ new' = [new EXCEPT ![r] = n]
      /\ pc' = [pc EXCEPT ![r] = "index"]
      /\ row' = row /\ events' = events /\ key' = key /\ patch' = patch
      /\ profile' = profile
  BY DEF Update, WritesRow, GoTo
<1>2. PInv'
  BY UpdateStep DEF TInv
<1>3. VersionsLeft'
  BY <1>1, NoneComesIn
<1>4. n \in Rows
  <2>1. row[key[r]] \in Rows /\ patch[r] \in Bodies /\ Valid(patch[r])
    BY <1>1 DEF TInv, TypeOK, PInv, Shapes, Accepted
  <2>2. row[key[r]].ver + 1 \in 2..MaxVersion
    BY <1>1, VersionLeft
  <2>3. MaxVersion \in Nat
    BY ProfileServiceAssumption DEF ProfileServiceAssumption
  <2>4. row[key[r]].ver + 1 \in 1..MaxVersion
    BY <2>2, <2>3
  <2> QED
    BY <1>1, <2>1, <2>4, PatchedRow
<1> HIDE DEF n
<1>5. /\ new'[r] = n
      /\ \A q \in Requests \ {r} : new'[q] = new[q]
      /\ patch[r] \in Patches \cup {Empty} /\ profile[r] \in Rows \cup {NoRow}
      /\ Valid(patch[r])
  BY <1>1 DEF TInv, TypeOK, Accepted
<1>6. Typed(r, "index")
  BY <1>1, <1>4, <1>5 DEF Typed
<1> QED
  BY <1>2, <1>3, <1>6, RequestTypes

\* Steps that only go on: BEGIN, the index, the event.
LEMMA GoOnTypes ==
  ASSUME TInv, NEW r \in Requests, BeginTx(r) \/ Index(r) \/ AddEvent(r)
  PROVE  TInv'
<1>1. row' = row /\ events' = events /\ key' = key /\ patch' = patch
      /\ new' = new /\ profile' = profile
  BY DEF BeginTx, Index, AddEvent
<1>2. PInv'
  BY BeginTxStep, IndexStep, AddEventStep DEF TInv
<1>3. /\ patch[r] \in Patches \cup {Empty} /\ profile[r] \in Rows \cup {NoRow}
      /\ new[r] \in Rows \cup {NoRow}
  BY DEF TInv, TypeOK
<1>4. ASSUME NEW l \in {"update", "event", "commit"},
             pc[r] # "done", pc' = [pc EXCEPT ![r] = l], Valid(patch[r]),
             l # "update" => ~Unstorable(patch[r])
      PROVE  TInv'
  <2>1. VersionsLeft'
    BY <1>1, <1>4, NoneComesIn
  <2>2. Typed(r, l)
    BY <1>1, <1>3, <1>4 DEF Typed
  <2> QED
    BY <1>2, <1>4, <2>1, <2>2, RequestTypes
<1>5. CASE BeginTx(r)
  BY <1>4, <1>5 DEF BeginTx, GoTo
<1>6. CASE Index(r) \/ AddEvent(r)
  <2>1. Valid(patch[r]) /\ ~Unstorable(patch[r])
    BY <1>6 DEF Index, AddEvent, TInv, Accepted, Holds
  <2> QED
    BY <1>4, <1>6, <2>1 DEF Index, AddEvent, GoTo
<1> QED
  BY <1>5, <1>6

\* COMMIT spends the version that was left for it.
LEMMA CommitTypes ==
  ASSUME TInv, NEW r \in Requests, Commit(r)
  PROVE  TInv'
<1> DEFINE i == key[r]
<1>1. /\ pc[r] = "commit"
      /\ row' = [row EXCEPT ![i] = new[r]]
      /\ events' = events \cup {[inv |-> i, ver |-> new[r].ver]}
      /\ new' = [new EXCEPT ![r] = NoRow]
      /\ pc' = [pc EXCEPT ![r] = "done"]
      /\ key' = key /\ patch' = patch
      /\ profile' = profile \/ profile' = [profile EXCEPT ![r] = new[r]]
  BY DEF Commit, Answer, GoTo
<1>2. PInv'
  BY CommitStep DEF TInv
<1>3. i \in Investors /\ new[r] = Patched(row[i], patch[r])
  BY <1>1 DEF TInv, PInv, RowLocks, Holds
<1>4. row[i] \in AnyRow /\ patch[r] \in Bodies /\ row[i].inv = i
  BY <1>3 DEF TInv, PInv, Shapes
<1>5. new[r].inv = i /\ new[r].ver = row[i].ver + 1 /\ row[i].ver \in Nat
  BY <1>3, <1>4, PatchedShape
<1>6. row[i].ver + 1 \in 2..MaxVersion
  BY <1>1, <1>3, VersionLeft
<1>7. new[r] \in Rows
  <2>1. NoRow.inv \notin Investors
    BY ProfileServiceAssumption DEF NoRow, NoKey, ProfileServiceAssumption
  <2>2. new[r] # NoRow
    BY <1>3, <1>5, <2>1
  <2> QED
    BY <2>2 DEF TInv, TypeOK
<1> HIDE DEF i
<1>8. /\ row' \in [Investors -> Rows]
      /\ \A j \in Investors : row'[j] = IF j = i THEN new[r] ELSE row[j]
  BY <1>1, <1>3, <1>7 DEF TInv, TypeOK
<1>9. events' \subseteq [inv : Investors, ver : 2..MaxVersion]
  BY <1>1, <1>3, <1>5, <1>6 DEF TInv, TypeOK
<1>10. /\ new' \in [Requests -> Rows \cup {NoRow}]
       /\ profile' \in [Requests -> Rows \cup {NoRow}]
       /\ patch' \in [Requests -> Patches \cup {Empty}]
  BY <1>1, <1>7 DEF TInv, TypeOK
<1>11. TypeOK'
  BY <1>2, <1>8, <1>9, <1>10 DEF TypeOK, PInv, Shapes
<1>12. \A q \in Requests : pc'[q] = IF q = r THEN "done" ELSE pc[q]
  BY <1>1 DEF TInv, TypeOK
<1>13. Accepted'
  <2> SUFFICES ASSUME NEW q \in Requests
               PROVE  /\ pc'[q] = "update" \/ Holds(q)' => Valid(patch[q])
                      /\ Holds(q)' => ~Unstorable(patch[q])
    BY <1>1 DEF Accepted, Valid, Unstorable
  <2>1. CASE q = r
    BY <1>12, <2>1 DEF Holds
  <2>2. CASE q # r
    BY <1>12, <2>2 DEF TInv, Accepted, Holds
  <2> QED
    BY <2>1, <2>2
<1>14. VersionsLeft'
  <2> SUFFICES ASSUME NEW j \in Investors
               PROVE  row'[j].ver + Cardinality(Incoming(j)') <= MaxVersion
    BY DEF VersionsLeft
  <2>1. /\ Incoming(j) \in SUBSET Requests
        /\ Incoming(j)' = IF j = i THEN Incoming(j) \ {r} ELSE Incoming(j)
        /\ r \in Incoming(i)
    BY <1>1, <1>12 DEF Incoming, i
  <2>2. IsFiniteSet(Incoming(j)) /\ Cardinality(Incoming(j)) \in Nat
    BY <2>1, RequestsFinite
  <2>3. row[j].ver + Cardinality(Incoming(j)) <= MaxVersion
    BY DEF TInv, VersionsLeft
  <2>4. CASE j = i
    <3>1. Cardinality(Incoming(j)') = Cardinality(Incoming(j)) - 1
      BY <2>1, <2>2, <2>4, FS_RemoveElement
    <3> QED
      BY <1>5, <1>8, <2>2, <2>3, <2>4, <3>1
  <2>5. CASE j # i
    BY <1>8, <2>1, <2>3, <2>5
  <2> QED
    BY <2>4, <2>5
<1> QED
  BY <1>2, <1>11, <1>13, <1>14 DEF TInv

\* An answer gives everything back.
LEMMA RespondTypes ==
  ASSUME TInv, NEW r \in Requests, Respond(r)
  PROVE  TInv'
<1>1. /\ pc[r] = "done"
      /\ pc' = [pc EXCEPT ![r] = "idle"]
      /\ key' = [key EXCEPT ![r] = NoKey]
      /\ patch' = [patch EXCEPT ![r] = Empty]
      /\ profile' = [profile EXCEPT ![r] = NoRow]
      /\ row' = row /\ events' = events /\ new' = new
  BY DEF Respond, GoTo
<1>2. PInv'
  BY RespondStep DEF TInv
<1>3. \A q \in Requests : /\ pc'[q] = IF q = r THEN "idle" ELSE pc[q]
                          /\ key'[q] = IF q = r THEN NoKey ELSE key[q]
                          /\ patch'[q] = IF q = r THEN Empty ELSE patch[q]
                          /\ profile'[q] = IF q = r THEN NoRow ELSE profile[q]
  BY <1>1 DEF TInv, TypeOK
<1>4. NoKey \notin Investors
  BY ProfileServiceAssumption DEF NoKey, ProfileServiceAssumption
<1>5. \A i \in Investors : Incoming(i)' \subseteq Incoming(i)
  BY <1>3, <1>4 DEF Incoming
<1>6. VersionsLeft'
  BY <1>1, <1>5, TableStays
<1>7. new[r] \in Rows \cup {NoRow}
  BY DEF TInv, TypeOK
<1>8. Typed(r, "idle")
  BY <1>1, <1>3, <1>7 DEF Typed
<1> QED
  BY <1>2, <1>6, <1>8, RequestTypes

\* At first every row has a free version.
LEMMA InitTypes == Init => TInv
<1> SUFFICES ASSUME Init PROVE TInv
  OBVIOUS
<1>1. PInv
  BY InitPInv
<1>2. MaxVersion \in Nat \ {0} /\ InitEmail \in [Investors -> Emails]
  BY ProfileServiceAssumption DEF ProfileServiceAssumption
<1>3. row \in [Investors -> Rows] /\ \A i \in Investors : row[i].ver = 1
  BY <1>2 DEF Init, Rows
<1>4. TypeOK
  BY <1>3 DEF Init, TypeOK, Rows
<1>5. Accepted
  BY DEF Init, Accepted, Holds
<1>6. VersionsLeft
  <2> SUFFICES ASSUME NEW i \in Investors
               PROVE  1 + Cardinality(Incoming(i)) <= MaxVersion
    BY <1>3 DEF VersionsLeft
  <2>1. Incoming(i) = {}
    BY ProfileServiceAssumption DEF Init, Incoming, NoKey, ProfileServiceAssumption
  <2> QED
    BY <1>2, <2>1, FS_EmptySet
<1> QED
  BY <1>1, <1>4, <1>5, <1>6 DEF TInv

\* Whatever a client sends, the table holds e-mails that ValidatePatch takes
\* and portfolio values that are decimals or NaN, and no row goes beyond the
\* bound on versions.
THEOREM TypeCorrect == Spec => []TypeOK
<1>1. TInv /\ [Next]_vars => TInv'
  <2> SUFFICES ASSUME TInv, [Next]_vars PROVE TInv'
    OBVIOUS
  <2>1. ASSUME NEW r \in Requests, NEW i \in Ids, NEW p \in Patches, Receive(r, i, p)
        PROVE  TInv'
    BY <2>1, ReceiveTypes
  <2>2. ASSUME NEW r \in Requests, NEW s \in {400, 404, 409, 500}, Fail(r, s)
        PROVE  TInv'
    BY <2>2, FailTypes
  <2>3. ASSUME NEW r \in Requests, Interrupted(r) PROVE TInv'
    BY <2>2, <2>3 DEF Interrupted
  <2>4. ASSUME NEW r \in Requests, Handle(r) PROVE TInv'
    <3>1. CASE Refuse(r) \/ NoSuchInvestor(r) \/ CastFails(r) \/ EmailExists(r)
               \/ Deadlocked(r)
      BY <2>2, <3>1
      DEF Refuse, NoSuchInvestor, CastFails, EmailExists, Deadlocked
    <3> QED
      BY <2>4, <3>1, GoOnTypes, UpdateTypes, CommitTypes, RespondTypes DEF Handle
  <2>5. CASE UNCHANGED vars
    <3>1. PInv'
      BY <2>5, NextPInv DEF TInv
    <3>2. VersionsLeft'
      BY <2>5, TableStays DEF vars, Incoming
    <3>3. TypeOK' /\ Accepted'
      BY <2>5 DEF vars, TInv, TypeOK, Accepted, Holds, Valid, Unstorable
    <3> QED
      BY <3>1, <3>2, <3>3 DEF TInv
  <2> QED
    BY <2>1, <2>3, <2>4, <2>5 DEF Next
<1>2. TInv => TypeOK
  BY DEF TInv
<1> QED
  BY <1>1, <1>2, InitTypes, PTL DEF Spec

-----------------------------------------------------------------------------
(* The refinement                                                          *)

\* COMMIT is Change; nothing else that a request does can be seen.
LEMMA WriterStep ==
  ASSUME PInv, Next
  PROVE  [Writer!NNext]_Writer!nvars
<1>1. ASSUME UNCHANGED <<row, events>> PROVE UNCHANGED Writer!nvars
  BY <1>1 DEF Writer!nvars
<1>2. ASSUME NEW r \in Requests, Commit(r) PROVE Writer!NNext
  <2>1. Holds(r)
    BY <1>2 DEF Commit, Holds
  <2> PICK k \in Investors : k = key[r]
    BY <2>1, Written
  <2>2. k \in Investors /\ new[r].ver = row[k].ver + 1
    BY <2>1, Written
  <2>3. /\ row' = [row EXCEPT ![k] = new[r]]
        /\ events' = events \cup {[inv |-> k, ver |-> row[k].ver + 1]}
    BY <1>2, <2>2 DEF Commit
  <2>4. [i \in Investors |-> row[i].ver]' =
          [[i \in Investors |-> row[i].ver] EXCEPT ![k] = row[k].ver + 1]
    BY <2>2, <2>3 DEF PInv, Shapes
  <2>5. Writer!Change(k)
    BY <2>2, <2>3, <2>4 DEF Writer!Change
  <2> QED
    BY <2>2, <2>5 DEF Writer!NNext
<1>3. ASSUME NEW r \in Requests, NEW s, Fail(r, s) PROVE UNCHANGED Writer!nvars
  BY <1>1, <1>3 DEF Fail
<1>4. ASSUME NEW r \in Requests, NEW i \in Ids, NEW p \in Patches, Receive(r, i, p)
      PROVE  UNCHANGED Writer!nvars
  BY <1>1, <1>4 DEF Receive
<1>5. ASSUME NEW r \in Requests, Interrupted(r) PROVE UNCHANGED Writer!nvars
  BY <1>3, <1>5 DEF Interrupted
<1>6. ASSUME NEW r \in Requests, Handle(r), ~Commit(r) PROVE UNCHANGED Writer!nvars
  <2>1. CASE Refuse(r)
    BY <1>3, <2>1 DEF Refuse
  <2>2. CASE NoSuchInvestor(r)
    BY <1>3, <2>2 DEF NoSuchInvestor
  <2>3. CASE CastFails(r)
    BY <1>3, <2>3 DEF CastFails
  <2>4. CASE EmailExists(r)
    BY <1>3, <2>4 DEF EmailExists
  <2>5. CASE Deadlocked(r)
    BY <1>3, <2>5 DEF Deadlocked
  <2>6. CASE BeginTx(r) \/ Update(r) \/ Index(r) \/ AddEvent(r) \/ Respond(r)
    BY <1>1, <2>6 DEF BeginTx, Update, WritesRow, Index, AddEvent, Respond
  <2> QED
    BY <1>6, <2>1, <2>2, <2>3, <2>4, <2>5, <2>6 DEF Handle
<1> QED
  BY <1>2, <1>4, <1>5, <1>6 DEF Next

\* The handlers promise what Outbox goes on from: one event per version, and no
\* trace of a PATCH that fails.
THEOREM Refinement == Spec => ImplementsNotification
<1>1. Init => Writer!NInit
  <2> SUFFICES ASSUME Init PROVE Writer!NInit
    OBVIOUS
  <2>1. [i \in Investors |-> row[i].ver] = [i \in Investors |-> 1]
    BY DEF Init
  <2>2. <<<<>>>> = [p \in {1} |-> <<>>]
    OBVIOUS
  <2> QED
    BY <2>1, <2>2 DEF Init, Writer!NInit
<1>2. PInv /\ [Next]_vars => [Writer!NNext]_Writer!nvars
  <2>1. ASSUME UNCHANGED vars PROVE UNCHANGED Writer!nvars
    BY <2>1 DEF vars, Writer!nvars
  <2> QED
    BY <2>1, WriterStep
<1> QED
  BY <1>1, <1>2, Invariance, PTL DEF Spec, ImplementsNotification, Writer!NSpec
=============================================================================
