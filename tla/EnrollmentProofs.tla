--------------------------- MODULE EnrollmentProofs ---------------------------
(***************************************************************************)
(* Proofs about Enrollment, for any number of machines, devices, approvals *)
(* and months: identities stay usable, and what is listed under an account *)
(* was approved there.                                                     *)
(***************************************************************************)
EXTENDS Enrollment, TLAPS

Entry == [id : Nat, key : Nat, mailbox : Machine, revoked : BOOLEAN, at : Nat]
Identity == [account : Machine, current : Nat, secret : Nat, devices : SUBSET Entry]
Request == [account : Machine, id : Nat, mailbox : Machine]
Approval == [account : Machine, target : Nat, devices : SUBSET Entry]
Pending == [account : Machine, id : Nat]

\* The files keep their types.
Types ==
    /\ made \in Nat /\ month \in Nat
    /\ identity \in [Machine -> Identity \cup {None}]
    /\ pending \in [Machine -> Pending \cup {None}]
    /\ requests \subseteq Request
    /\ approvals \subseteq Approval
    /\ reenrolled \in BOOLEAN

\* A list in which n is active and every signature holds.
Sound(devices, n) ==
    /\ \E d \in devices : d.id = n /\ ~d.revoked
    /\ \A d \in devices : Signed(d)

\* What EnrollmentWorks rests on: an approval is sound for its target,
\* whatever is pending when it arrives.
ListsAreSound ==
    ~reenrolled =>
        /\ \A m \in Machine : identity[m] # None =>
              Sound(identity[m].devices, identity[m].current)
        /\ \A a \in approvals : Sound(a.devices, a.target)

Inv == Types /\ ListsAreSound

-----------------------------------------------------------------------------
\* The device lists.

LEMMA IdentityIsNotNone == None \notin Identity /\ None \notin Pending
  BY DEF None, Identity, Pending

LEMMA DeviceIsSigned ==
  \A n \in Nat, m \in Machine :
    /\ Device(n, m) \in Entry /\ Signed(Device(n, m)) /\ ~Device(n, m).revoked
    /\ Device(n, m).id = n /\ Device(n, m).mailbox = m
  BY DEF Device, Entry, Signed

\* What is dropped is neither the current device nor an active one.
LEMMA CompactedKeeps ==
  ASSUME NEW i \in Identity
  PROVE  /\ Compacted(i) \in Identity /\ Compacted(i).current = i.current
         /\ Sound(i.devices, i.current) => Sound(Compacted(i).devices, i.current)
<1>1. /\ Compacted(i).devices = {d \in i.devices : d.id = i.current \/ ~d.revoked \/ d.at = month}
      /\ Compacted(i) \in Identity /\ Compacted(i).current = i.current
  BY DEF Compacted, Identity
<1> QED
  BY <1>1 DEF Sound

\* An approval makes the new device active and takes no other away.
LEMMA UpsertedIsSound ==
  ASSUME NEW devices \in SUBSET Entry, NEW new \in Entry, Signed(new), ~new.revoked
  PROVE  /\ Upserted(devices, new) \subseteq Entry
         /\ (\A d \in devices : Signed(d)) /\ (\A d \in devices : d.mailbox = new.mailbox => d.id = new.id)
            => /\ Sound(Upserted(devices, new), new.id)
               /\ \A n \in Nat : Sound(devices, n) => Sound(Upserted(devices, new), n)
<1> DEFINE Put(d) == [d EXCEPT !.key = new.key, !.revoked = FALSE, !.at = 0]
<1>1. CASE \A d \in devices : ~Matches(d, new)
  <2>1. Upserted(devices, new) = devices \cup {new}
    BY <1>1 DEF Upserted
  <2> QED
    BY <2>1 DEF Sound
<1>2. CASE \E d \in devices : Matches(d, new)
  <2>1. Upserted(devices, new) = {IF Matches(d, new) THEN Put(d) ELSE d : d \in devices}
    BY <1>2 DEF Upserted
  <2>2. \A d \in devices : /\ Put(d) \in Entry /\ Put(d).id = d.id
                           /\ Put(d).key = new.key /\ ~Put(d).revoked
    BY DEF Entry
  <2> HIDE DEF Put
  <2>3. Upserted(devices, new) \subseteq Entry
    BY <2>1, <2>2
  <2>4. ASSUME \A d \in devices : Signed(d),
               \A d \in devices : d.mailbox = new.mailbox => d.id = new.id
        PROVE  /\ Sound(Upserted(devices, new), new.id)
               /\ \A n \in Nat : Sound(devices, n) => Sound(Upserted(devices, new), n)
    <3>1. \A d \in devices : Matches(d, new) => d.id = new.id
      BY <2>4 DEF Matches
    <3>2. \A e \in Upserted(devices, new) : Signed(e)
      BY <2>1, <2>2, <2>4, <3>1 DEF Signed
    <3>3. \E e \in Upserted(devices, new) : e.id = new.id /\ ~e.revoked
      BY <1>2, <2>1, <2>2, <3>1
    <3>4. \A d \in devices : ~d.revoked =>
             \E e \in Upserted(devices, new) : e.id = d.id /\ ~e.revoked
      BY <2>1, <2>2
    <3> QED
      BY <3>2, <3>3, <3>4 DEF Sound
  <2> QED
    BY <2>3, <2>4
<1> QED
  BY <1>1, <1>2

-----------------------------------------------------------------------------
\* The commands.

LEMMA Start0 == Init => Inv
<1> SUFFICES ASSUME Init PROVE Inv
  OBVIOUS
<1>4. NewIdentity(1, Account) \in Identity
  BY DeviceIsSigned, EnrollmentAssumption DEF NewIdentity, Identity
<1>1. Types
  BY <1>4 DEF Init, Types
<1>2. ListsAreSound
  <2>1. Sound({Device(1, Account)}, 1) /\ Device(1, Account).id = 1
    <3>1. /\ Device(1, Account).id = 1 /\ Device(1, Account).revoked = FALSE
          /\ Signed(Device(1, Account))
      BY DEF Device, Signed
    <3> QED
      BY <3>1 DEF Sound
  <2>2. /\ NewIdentity(1, Account).devices = {Device(1, Account)}
        /\ NewIdentity(1, Account).current = 1
    BY DEF NewIdentity
  <2> QED
    BY <2>1, <2>2, EnrollmentAssumption DEF Init, ListsAreSound
<1> QED
  BY <1>1, <1>2 DEF Inv

LEMMA ApproveKeeps ==
  ASSUME Inv, NEW m \in Machine, NEW r \in requests, Approve(m, r) PROVE Inv'
<1> DEFINE i == identity[m]
           new == Device(r.id, r.mailbox)
           devices == Upserted(i.devices, new)
           j == [i EXCEPT !.devices = devices]
<1>1. i \in Identity /\ r \in Request
  BY DEF Approve, Inv, Types
<1>2. new \in Entry /\ Signed(new) /\ ~new.revoked /\ new.id = r.id /\ new.mailbox = r.mailbox
  BY <1>1, DeviceIsSigned DEF Request
<1>3. devices \subseteq Entry
  BY <1>1, <1>2, UpsertedIsSound DEF Identity
<1>4. j \in Identity /\ j.devices = devices /\ j.current = i.current
  BY <1>1, <1>3 DEF Identity
<1>5. /\ identity' = [identity EXCEPT ![m] = Compacted(j)]
      /\ approvals' = approvals \cup {[account |-> i.account, target |-> r.id, devices |-> devices]}
      /\ reenrolled' = (reenrolled \/ \E d \in i.devices : d.mailbox = r.mailbox /\ d.id # r.id)
      /\ UNCHANGED <<pending, requests, contact, made, month>>
  BY DEF Approve
<1>6. ASSUME ~reenrolled'
      PROVE  Sound(devices, r.id) /\ Sound(devices, i.current)
  <2>1. i.devices \in SUBSET Entry /\ i.current \in Nat /\ i # None
    BY <1>1, IdentityIsNotNone DEF Identity
  <2>2. ~reenrolled /\ \A d \in i.devices : d.mailbox = new.mailbox => d.id = new.id
    BY <1>2, <1>5, <1>6
  <2>3. Sound(i.devices, i.current)
    BY <2>1, <2>2 DEF Inv, ListsAreSound
  <2>4. \A d \in i.devices : Signed(d)
    BY <2>3 DEF Sound
  <2> HIDE DEF i, new
  <2> QED
    BY <1>2, <2>1, <2>2, <2>3, <2>4, UpsertedIsSound
<1> HIDE DEF devices, j, new
<1>7. Compacted(j) \in Identity /\ Compacted(j).current = i.current
      /\ (Sound(devices, i.current) => Sound(Compacted(j).devices, i.current))
  BY <1>4, CompactedKeeps
<1>8. Types'
  BY <1>1, <1>3, <1>5, <1>7 DEF Inv, Types, Approval, Request, Identity
<1>9. ListsAreSound'
  BY <1>5, <1>6, <1>7 DEF Inv, Types, ListsAreSound
<1> QED
  BY <1>8, <1>9 DEF Inv

LEMMA CompleteKeeps ==
  ASSUME Inv, NEW m \in Machine, NEW a \in approvals, NEW crash \in BOOLEAN, Complete(m, a, crash)
  PROVE  Inv'
<1> DEFINE j == Completed(pending[m], a)
<1>1. pending[m] \in Pending /\ a \in Approval
  BY DEF Complete, Fits, Inv, Types
<1>2. j \in Identity /\ Sound(j.devices, j.current)
  BY <1>1 DEF Complete, Completed, Identity, Pending, Approval, Valid, HasCurrent, DeviceByID, Sound
<1>3. /\ identity' = [identity EXCEPT ![m] = Compacted(j)]
      /\ pending' \in {pending, [pending EXCEPT ![m] = None]}
      /\ UNCHANGED <<requests, approvals, contact, made, month, reenrolled>>
  BY DEF Complete
<1> HIDE DEF j
<1>4. Compacted(j) \in Identity /\ Sound(Compacted(j).devices, Compacted(j).current)
  BY <1>2, CompactedKeeps
<1>5. Types'
  BY <1>3, <1>4 DEF Inv, Types
<1>6. ListsAreSound'
  BY <1>3, <1>4 DEF Inv, Types, ListsAreSound
<1> QED
  BY <1>5, <1>6 DEF Inv

LEMMA RevokeKeeps ==
  ASSUME Inv, NEW m \in Machine, Revoke(m) PROVE Inv'
<1> DEFINE i == identity[m]
<1>1. i \in Identity /\ i # None
  BY DEF Revoke, Inv, Types
<1>2. PICK d \in Revocable(i) : identity' = [identity EXCEPT ![m] = Compacted([i EXCEPT !.devices =
             (i.devices \ {d}) \cup {[d EXCEPT !.revoked = TRUE, !.at = month]}])]
  BY DEF Revoke
<1> DEFINE e == [d EXCEPT !.revoked = TRUE, !.at = month]
           devices == (i.devices \ {d}) \cup {e}
           j == [i EXCEPT !.devices = devices]
<1>3. d \in i.devices /\ d \in Entry /\ d.id # i.current
  BY <1>1, <1>2 DEF Revocable, Identity
<1>4. e \in Entry /\ e.id = d.id /\ e.key = d.key
  BY <1>3 DEF Inv, Types, Entry
<1>5. j \in Identity /\ j.devices = devices /\ j.current = i.current
  BY <1>1, <1>4 DEF Identity
<1>6. identity' = [identity EXCEPT ![m] = Compacted(j)]
  BY <1>2
<1>7. Sound(i.devices, i.current) => Sound(devices, i.current)
  BY <1>3, <1>4 DEF Sound, Signed
<1> HIDE DEF j, e, devices
<1>8. Compacted(j) \in Identity /\ Compacted(j).current = i.current
      /\ (Sound(i.devices, i.current) => Sound(Compacted(j).devices, i.current))
  BY <1>5, <1>7, CompactedKeeps
<1>9. UNCHANGED <<pending, requests, approvals, contact, made, month, reenrolled>>
  BY DEF Revoke
<1>10. Types'
  BY <1>6, <1>8, <1>9 DEF Inv, Types
<1>11. ListsAreSound'
  BY <1>1, <1>6, <1>8, <1>9 DEF Inv, Types, ListsAreSound
<1> QED
  BY <1>10, <1>11 DEF Inv

LEMMA StepKeeps ==
  ASSUME Inv, [Next]_vars PROVE Inv'
<1>1. ASSUME NEW m \in Machine, CreateIdentity(m) PROVE Inv'
  <2>1. NewIdentity(made + 1, m) \in Identity
        /\ Sound(NewIdentity(made + 1, m).devices, NewIdentity(made + 1, m).current)
    BY DeviceIsSigned DEF Inv, Types, NewIdentity, Identity, Sound
  <2>2. /\ identity' = [identity EXCEPT ![m] = NewIdentity(made + 1, m)] /\ made' = made + 1
        /\ UNCHANGED <<pending, requests, approvals, contact, month, reenrolled>>
    BY <1>1 DEF CreateIdentity
  <2>3. Types'
    BY <2>1, <2>2 DEF Inv, Types
  <2>4. ListsAreSound'
    BY <2>1, <2>2 DEF Inv, Types, ListsAreSound
  <2> QED
    BY <2>3, <2>4 DEF Inv
<1>2. ASSUME NEW m \in Machine, NEW a \in Machine, CreateEnrollment(m, a) PROVE Inv'
  <2>1. /\ made' = made + 1 /\ UNCHANGED <<identity, approvals, contact, month, reenrolled>>
        /\ pending' = [pending EXCEPT ![m] = [account |-> a, id |-> made + 1]]
        /\ requests' = requests \cup {[account |-> a, id |-> made + 1, mailbox |-> m]}
    BY <1>2 DEF CreateEnrollment
  <2>2. Types'
    BY <2>1 DEF Inv, Types, Pending, Request
  <2> QED
    BY <2>1, <2>2 DEF Inv, ListsAreSound
<1>3. ASSUME NEW m \in Machine, Start(m) \/ SendUpdate(m) \/ Month PROVE Inv'
  <2>1. /\ month' \in {month, month + 1}
        /\ UNCHANGED <<identity, pending, requests, approvals, contact, made, reenrolled>>
    BY <1>3 DEF Start, SendUpdate, Month
  <2> QED
    BY <2>1 DEF Inv, Types, ListsAreSound
<1>4. ASSUME NEW u \in net, ReceiveUpdate(u) PROVE Inv'
  <2>1. UNCHANGED <<identity, pending, requests, approvals, made, month, reenrolled>>
    BY <1>4 DEF ReceiveUpdate
  <2> QED
    BY <2>1 DEF Inv, Types, ListsAreSound
<1>5. CASE UNCHANGED vars
  BY <1>5 DEF vars, Inv, Types, ListsAreSound
<1>6. ASSUME Month PROVE Inv'
  BY <1>3, <1>6, EnrollmentAssumption
<1> QED
  BY <1>1, <1>2, <1>3, <1>4, <1>5, <1>6, ApproveKeeps, CompleteKeeps, RevokeKeeps
     DEF Next, Command

-----------------------------------------------------------------------------
\* What every behaviour keeps (the two theorems below follow from it).
THEOREM InvCorrect == Spec => []Inv
<1> QED
  BY Start0, StepKeeps, PTL DEF Spec

\* Unless a mailbox is approved under a second id, messaging.New never refuses
\* an identity that pandoctl device has written, and no approval that fits a
\* pending enrollment fails (enrollment.go:50), whatever is approved, revoked
\* and dropped in between on whichever machine.
THEOREM EnrollmentWorksCorrect == Spec => []EnrollmentWorks
<1>1. Inv => EnrollmentWorks
  <2> SUFFICES ASSUME Inv, ~reenrolled PROVE EnrollmentWorks
    BY DEF EnrollmentWorks
  <2>1. ASSUME NEW m \in Machine, identity[m] # None PROVE Valid(identity[m])
    BY <2>1 DEF Inv, ListsAreSound, Sound, Valid, HasCurrent, DeviceByID
  <2>2. ASSUME NEW m \in Machine, NEW a \in approvals, Fits(pending[m], a)
        PROVE  Valid(Completed(pending[m], a))
    BY <2>2 DEF Inv, ListsAreSound, Sound, Valid, HasCurrent, DeviceByID, Fits, Completed
  <2> QED
    BY <2>1, <2>2 DEF EnrollmentWorks
<1> QED
  BY <1>1, InvCorrect, PTL

-----------------------------------------------------------------------------
\* Where the devices of a list come from.

\* d may stand in a list of account a: its key is that of a device which made
\* the account or was approved for it, and its id was given to its mailbox.
Listed(a, d) ==
    /\ d \in Entry /\ d.id <= made /\ d.key <= made
    /\ \A r \in requests : r.id = d.id => r.mailbox = d.mailbox
    /\ BelongsTo(a, d)

AllListed(i) == i # None => \A d \in i.devices : Listed(i.account, d)

\* The lists on disk, in memory and on their way, not only the two kinds the
\* property names: an old approval or update may become either.
Provenance ==
    /\ \A r \in requests : r.id <= made
    /\ \A r, q \in requests : r.id = q.id => r = q
    /\ \A m \in Machine : AllListed(identity[m]) /\ AllListed(running[m])
    /\ \A p \in approvals : \A d \in p.devices : Listed(p.account, d)
    /\ \A u \in net : \A d \in u.devices : Listed(u.account, d)
    /\ \A d \in contact : Listed(Account, d)

Older == /\ made' \in Nat /\ made <= made'
         /\ requests \subseteq requests' /\ approvals \subseteq approvals'
         /\ \A r \in requests' \ requests : r.id > made

\* What is listed stays so: requests are for devices made later.
LEMMA ListedStays ==
  ASSUME Types, Older, NEW a, NEW d, Listed(a, d) PROVE Listed(a, d)'
<1>1. d \in Entry /\ d.id \in Nat /\ d.key \in Nat /\ made \in Nat
  BY DEF Listed, Entry, Types
<1>2. d.id <= made /\ d.key <= made
  BY DEF Listed
<1>3. d.id <= made' /\ d.key <= made'
  BY <1>1, <1>2 DEF Older
<1>4. ASSUME NEW r \in requests', r.id = d.id \/ r.id = d.key PROVE r \in requests
  BY <1>1, <1>2, <1>4 DEF Older
<1>5. \A r \in requests' : r.id = d.id => r.mailbox = d.mailbox
  BY <1>4 DEF Listed
<1>6. BelongsTo(a, d)'
  BY <1>4 DEF Listed, BelongsTo, Older
<1> QED
  BY <1>1, <1>3, <1>5, <1>6 DEF Listed

LEMMA UpsertedIsListed ==
  ASSUME NEW devices, NEW a, NEW r \in Request,
         \A d \in devices : Listed(a, d)', Listed(a, Device(r.id, r.mailbox))',
         r \in requests', \A q \in requests' : q.id = r.id => q = r
  PROVE  \A d \in Upserted(devices, Device(r.id, r.mailbox)) : Listed(a, d)'
<1> DEFINE new == Device(r.id, r.mailbox)
           Put(d) == [d EXCEPT !.key = new.key, !.revoked = FALSE, !.at = 0]
<1>1. /\ new \in Entry /\ new.id = r.id /\ new.key = r.id /\ new.mailbox = r.mailbox
  BY DEF Device, Entry, Request
<1>2. ASSUME NEW d \in devices, Matches(d, new) PROVE Listed(a, Put(d))'
  <2>1. d \in Entry /\ d.id <= made' /\ \A q \in requests' : q.id = d.id => q.mailbox = d.mailbox
    BY DEF Listed
  <2>2. d.mailbox = r.mailbox
    BY <1>1, <1>2, <2>1 DEF Matches
  <2>3. /\ Put(d) \in Entry /\ Put(d).id = d.id /\ Put(d).key = new.key
        /\ Put(d).mailbox = new.mailbox
    BY <1>1, <2>1, <2>2 DEF Entry
  <2> HIDE DEF Put, new
  <2>4. BelongsTo(a, new)' /\ new.key <= made'
    BY DEF Listed, new
  <2>5. BelongsTo(a, Put(d))'
    BY <2>3, <2>4 DEF BelongsTo
  <2> QED
    BY <2>1, <2>3, <2>4, <2>5, <1>1, <2>2 DEF Listed
<1>3. Upserted(devices, new) = (IF \E d \in devices : Matches(d, new)
          THEN {IF Matches(d, new) THEN Put(d) ELSE d : d \in devices}
          ELSE devices \cup {new})
  BY DEF Upserted
<1> HIDE DEF Put
<1> QED
  BY <1>2, <1>3

LEMMA ApproveIsListed ==
  ASSUME Types, Provenance, NEW m \in Machine, NEW r \in requests, Approve(m, r)
  PROVE  Provenance'
<1>1. PICK i, devices, k, p :
        /\ i = identity[m] /\ devices = Upserted(i.devices, Device(r.id, r.mailbox))
        /\ k = Compacted([i EXCEPT !.devices = devices])
        /\ p = [account |-> i.account, target |-> r.id, devices |-> devices]
  OBVIOUS
<1>2. /\ i \in Identity /\ i # None /\ r \in Request /\ r.account = i.account
      /\ identity' = [identity EXCEPT ![m] = k]
      /\ approvals' = approvals \cup {p}
      /\ UNCHANGED <<running, requests, contact, net, made>>
  BY <1>1 DEF Approve, Types
<1>3. Older
  BY <1>2 DEF Older, Types
<1>4. r.id <= made /\ \A q \in requests : q.id = r.id => q = r
  BY DEF Provenance
<1>5. Listed(i.account, Device(r.id, r.mailbox))'
  <2>1. PICK new : new = Device(r.id, r.mailbox)
    OBVIOUS
  <2>2. new \in Entry /\ new.id = r.id /\ new.key = r.id /\ new.mailbox = r.mailbox
    BY <1>2, <2>1 DEF Device, Entry, Request
  <2>3. BelongsTo(i.account, new)'
    BY <1>1, <1>2, <2>2 DEF BelongsTo
  <2>4. Listed(i.account, new)'
    BY <1>2, <1>4, <2>2, <2>3 DEF Listed
  <2> QED
    BY <2>1, <2>4
<1>6. \A d \in i.devices : Listed(i.account, d)'
  BY <1>1, <1>2, <1>3, ListedStays DEF Provenance, AllListed
<1>7. \A d \in devices : Listed(i.account, d)'
  BY <1>1, <1>2, <1>4, <1>5, <1>6, UpsertedIsListed
<1>8. k.devices \subseteq devices /\ k.account = i.account
  BY <1>1, <1>2 DEF Compacted, Identity
<1>9. AllListed(k)'
  BY <1>7, <1>8 DEF AllListed
<1> QED
  BY <1>1, <1>2, <1>3, <1>7, <1>9, ListedStays DEF Provenance, AllListed, Types

LEMMA CompleteIsListed ==
  ASSUME Types, Provenance, NEW m \in Machine, NEW a \in approvals,
         NEW crash \in BOOLEAN, Complete(m, a, crash)
  PROVE  Provenance'
<1>1. PICK j, k : j = Completed(pending[m], a) /\ k = Compacted(j)
  OBVIOUS
<1>2. /\ identity' = [identity EXCEPT ![m] = k]
      /\ UNCHANGED <<running, requests, approvals, contact, net, made>>
      /\ j.devices = a.devices /\ j.account = a.account
      /\ k.devices \subseteq j.devices /\ k.account = j.account
  BY <1>1 DEF Complete, Completed, Compacted
<1>3. AllListed(k)
  BY <1>2 DEF AllListed, Provenance
<1>4. Older
  BY <1>2 DEF Older, Types
<1>5. AllListed(k)'
  BY <1>3, <1>4, ListedStays DEF AllListed
<1> QED
  BY <1>2, <1>4, <1>5, ListedStays DEF Provenance, AllListed, Types

LEMMA RevokeIsListed ==
  ASSUME Types, Provenance, NEW m \in Machine, Revoke(m) PROVE Provenance'
<1>1. PICK i : i = identity[m]
  OBVIOUS
<1>2. PICK d \in i.devices :
        \E e, k :
          /\ e = [d EXCEPT !.revoked = TRUE, !.at = month]
          /\ k = Compacted([i EXCEPT !.devices = (i.devices \ {d}) \cup {e}])
          /\ identity' = [identity EXCEPT ![m] = k]
  BY <1>1 DEF Revoke, Revocable
<1>3. PICK e, k :
        /\ e = [d EXCEPT !.revoked = TRUE, !.at = month]
        /\ k = Compacted([i EXCEPT !.devices = (i.devices \ {d}) \cup {e}])
        /\ identity' = [identity EXCEPT ![m] = k]
  BY <1>2
<1>4. /\ i \in Identity /\ i # None
      /\ UNCHANGED <<running, requests, approvals, contact, net, made>>
  BY <1>1 DEF Revoke, Types
<1>5. Listed(i.account, d)
  BY <1>1, <1>2, <1>4 DEF Provenance, AllListed
<1>6. /\ e \in Entry /\ e.id = d.id /\ e.key = d.key /\ e.mailbox = d.mailbox
  BY <1>3, <1>5 DEF Listed, Entry, Types
<1>7. Listed(i.account, e)
  BY <1>5, <1>6 DEF Listed, BelongsTo
<1>8. k.devices \subseteq i.devices \cup {e} /\ k.account = i.account
  BY <1>3, <1>4 DEF Compacted, Identity
<1>9. AllListed(k)
  BY <1>1, <1>4, <1>7, <1>8 DEF AllListed, Provenance
<1>10. Older
  BY <1>4 DEF Older, Types
<1>11. AllListed(k)'
  BY <1>9, <1>10, ListedStays DEF AllListed
<1> QED
  BY <1>3, <1>4, <1>10, <1>11, ListedStays DEF Provenance, AllListed, Types

LEMMA CreateIsListed ==
  ASSUME Types, Provenance, NEW m \in Machine,
         CreateIdentity(m) \/ \E a \in Machine : CreateEnrollment(m, a)
  PROVE  Provenance'
<1>1. CASE CreateIdentity(m)
  <2>1. PICK k : k = NewIdentity(made + 1, m)
    OBVIOUS
  <2>2. /\ identity' = [identity EXCEPT ![m] = k] /\ made' = made + 1
        /\ UNCHANGED <<running, requests, approvals, contact, net>>
    BY <1>1, <2>1 DEF CreateIdentity
  <2>3. Older
    BY <2>2 DEF Older, Types
  <2>4. PICK n \in Nat : n = made + 1
    BY DEF Types
  <2>5. n <= made' /\ \A r \in requests' : r.id # n
    BY <2>2, <2>4 DEF Provenance, Types, Request
  <2>6. AllListed(NewIdentity(n, m))'
    <3>1. /\ Device(n, m) \in Entry /\ Device(n, m).id = n
          /\ Device(n, m).key = n /\ Device(n, m).mailbox = m
      BY DEF Device, Entry
    <3>2. /\ NewIdentity(n, m).devices = {Device(n, m)}
          /\ NewIdentity(n, m).account = m
      BY DEF NewIdentity
    <3>3. Listed(m, Device(n, m))'
      BY <2>5, <3>1 DEF Listed, BelongsTo
    <3> QED
      BY <3>2, <3>3 DEF AllListed
  <2> QED
    BY <2>1, <2>2, <2>3, <2>4, <2>6, ListedStays DEF Provenance, AllListed, Types, Request
<1>2. ASSUME NEW a \in Machine, CreateEnrollment(m, a) PROVE Provenance'
  <2>1. /\ made' = made + 1 /\ UNCHANGED <<identity, running, approvals, contact, net>>
        /\ requests' = requests \cup {[account |-> a, id |-> made + 1, mailbox |-> m]}
    BY <1>2 DEF CreateEnrollment
  <2>2. Older
    BY <2>1 DEF Older, Types
  <2>3. /\ \A r \in requests' : r.id <= made'
        /\ \A r, q \in requests' : r.id = q.id => r = q
    BY <2>1 DEF Provenance, Types, Request
  <2> QED
    BY <2>1, <2>2, <2>3, ListedStays DEF Provenance, AllListed, Types
<1> QED
  BY <1>1, <1>2

LEMMA ClientIsListed ==
  ASSUME Types, Provenance, [Next]_vars,
         ~(\E m \in Machine : Command(m))
  PROVE  Provenance'
<1>1. ASSUME NEW m \in Machine, Start(m) PROVE Provenance'
  BY <1>1, ListedStays DEF Start, Provenance, AllListed, Types, Older
<1>2. ASSUME NEW m \in Machine, SendUpdate(m) PROVE Provenance'
  BY <1>2, ListedStays DEF SendUpdate, Provenance, AllListed, Types, Older
<1>3. ASSUME NEW u \in net, ReceiveUpdate(u) PROVE Provenance'
  BY <1>3, ListedStays DEF ReceiveUpdate, Provenance, AllListed, Types, Older
<1>4. CASE Month \/ UNCHANGED vars
  BY <1>4, ListedStays DEF Month, vars, Provenance, AllListed, Types, Older
<1> QED
  BY <1>1, <1>2, <1>3, <1>4 DEF Next

LEMMA ListedAtStart == Init => Provenance
<1> SUFFICES ASSUME Init PROVE Provenance
  OBVIOUS
<1>1. /\ NewIdentity(1, Account).devices = {Device(1, Account)}
      /\ NewIdentity(1, Account).account = Account
  BY DEF NewIdentity
<1>2. /\ Device(1, Account) \in Entry /\ Device(1, Account).id = 1
      /\ Device(1, Account).key = 1 /\ Device(1, Account).mailbox = Account
  BY EnrollmentAssumption DEF Device, Entry
<1>3. Listed(Account, Device(1, Account))
  BY <1>2 DEF Init, Listed, BelongsTo
<1> QED
  BY <1>1, <1>3, EnrollmentAssumption DEF Init, Provenance, AllListed

\* A device is listed under an account only if it made the account, or asked
\* for it and was approved (enrollment.go:89), wherever a list was kept, merged
\* or received and however old it is (device.go:109, content_handlers.go:158).
THEOREM DevicesWereApprovedCorrect == Spec => []DevicesWereApproved
<1>1. Types /\ Provenance /\ [Next]_vars => Provenance'
  <2> SUFFICES ASSUME Types, Provenance, [Next]_vars PROVE Provenance'
    OBVIOUS
  <2>1. ASSUME NEW m \in Machine, Command(m) PROVE Provenance'
    BY <2>1, ApproveIsListed, CompleteIsListed, RevokeIsListed, CreateIsListed DEF Command
  <2> QED
    BY <2>1, ClientIsListed
<1>2. Inv => Types
  BY DEF Inv
<1>3. Provenance => DevicesWereApproved
  BY DEF Provenance, AllListed, Listed, DevicesWereApproved
<1> QED
  BY <1>1, <1>2, <1>3, ListedAtStart, InvCorrect, PTL DEF Spec
=============================================================================
