----------------------------- MODULE Enrollment -----------------------------
(***************************************************************************)
(* The devices of an account (identity/enrollment.go, identity.go,         *)
(* device.go), the pandoctl commands that enroll and revoke them           *)
(* (ctlcmd/device.go) and the list of them that a contact keeps            *)
(* (messaging/outgoing.go, content_handlers.go).                           *)
(*                                                                         *)
(* There is one machine per device mailbox.  Each keeps its own copy of    *)
(* the list; copies travel in approval files and, to the contact, in       *)
(* contact updates, and no machine of the account tells another what it    *)
(* approved or revoked.                                                    *)
(*                                                                         *)
(* The id of a device and its key pairs are made together, so one number   *)
(* stands for all of them; the account signs id, mailbox and keys, so a    *)
(* signature holds exactly when the id and the key are still the same      *)
(* number.  An account is named by the machine that made it.  No two       *)
(* entries of a device list have an id or a mailbox in common (upsertDevice *)
(* looks for both), so the list is a set.                                  *)
(***************************************************************************)
EXTENDS Naturals, FiniteSets

CONSTANTS Machine,     \* device mailboxes, one data directory each
          Account,     \* the machine whose account the contact knows
          MaxDevices,  \* devices made
          MaxMonths, MaxApprovals, MaxUpdates, MaxFaults

ASSUME EnrollmentAssumption ==
    /\ Account \in Machine
    /\ {MaxDevices, MaxMonths, MaxApprovals, MaxUpdates, MaxFaults} \subseteq Nat

VARIABLES identity,   \* identity.json of each machine
          pending,    \* pending-enrollment.json of each machine
          running,    \* the identity its chat client loaded
          requests, approvals,   \* the files users carry between machines
          contact,    \* the device list the contact has stored
          net,        \* contact updates on their way
          made, month, updates, faults,
          reenrolled  \* a mailbox was approved under a second device id

vars == <<identity, pending, running, requests, approvals, contact, net,
          made, month, updates, faults, reenrolled>>

None == [account |-> "none"]

Device(n, m) == [id |-> n, key |-> n, mailbox |-> m, revoked |-> FALSE, at |-> 0]

\* verifyDeviceBundle
Signed(d) == d.id = d.key
DeviceByID(devices, n) == {d \in devices : d.id = n}
DeviceByMailbox(devices, m) == {d \in devices : d.mailbox = m}

\* CurrentDevice
HasCurrent(i) == \E own \in DeviceByID(i.devices, i.current) : ~own.revoked

\* Validate
Valid(i) == HasCurrent(i) /\ \A d \in i.devices : Signed(d)

\* CompactRevokedDevices: what was revoked more than a month ago is dropped.
Compacted(i) ==
    [i EXCEPT !.devices = {d \in @ : d.id = i.current \/ ~d.revoked \/ d.at = month}]

\* NewWithAccount(mailbox, mailbox)
NewIdentity(n, m) ==
    [account |-> m, current |-> n, secret |-> n, devices |-> {Device(n, m)}]

Init ==
    /\ identity = [m \in Machine |-> IF m = Account THEN NewIdentity(1, m) ELSE None]
    /\ pending = [m \in Machine |-> None]
    /\ running = [m \in Machine |-> None]
    /\ requests = {} /\ approvals = {} /\ net = {}
    /\ contact = {Device(1, Account)}
    /\ made = 1 /\ month = 0 /\ updates = 0 /\ faults = 0
    /\ reenrolled = FALSE

\* LoadOrCreateIdentity: whichever command comes first makes an account.
CreateIdentity(m) ==
    /\ identity[m] = None /\ made < MaxDevices
    /\ made' = made + 1
    /\ identity' = [identity EXCEPT ![m] = NewIdentity(made + 1, m)]
    /\ UNCHANGED <<pending, running, requests, approvals, contact, net, month,
                   updates, faults, reenrolled>>

\* device enroll create: a later one replaces the pending enrollment.
CreateEnrollment(m, a) ==
    /\ made < MaxDevices
    /\ made' = made + 1
    /\ pending' = [pending EXCEPT ![m] = [account |-> a, id |-> made + 1]]
    /\ requests' = requests \cup {[account |-> a, id |-> made + 1, mailbox |-> m]}
    /\ UNCHANGED <<identity, running, approvals, contact, net, month, updates,
                   faults, reenrolled>>

Matches(d, new) == d.id = new.id \/ d.mailbox = new.mailbox

\* upsertDevice: the entry of the same id or mailbox gets the keys and keeps
\* its id, although the signature is over the new one.
Upserted(devices, new) ==
    IF \E d \in devices : Matches(d, new)
      THEN {IF Matches(d, new) THEN [d EXCEPT !.key = new.key, !.revoked = FALSE, !.at = 0]
            ELSE d : d \in devices}
      ELSE devices \cup {new}

\* Mutant: the request's account is not compared.
ApproveAny(m, r) ==
    LET i == identity[m]
        devices == Upserted(i.devices, Device(r.id, r.mailbox)) IN
    /\ i # None
    /\ Cardinality(approvals) < MaxApprovals
    /\ identity' = [identity EXCEPT ![m] = Compacted([i EXCEPT !.devices = devices])]
    /\ approvals' = approvals \cup
           {[account |-> i.account, target |-> r.id, devices |-> devices]}
    /\ reenrolled' = (reenrolled \/ \E d \in i.devices :
                                      d.mailbox = r.mailbox /\ d.id # r.id)
    /\ UNCHANGED <<pending, running, requests, contact, net, made, month, updates, faults>>

\* Mutant: the approval carries the list from before.
ApproveStale(m, r) ==
    LET i == identity[m] IN
    /\ i # None /\ r.account = i.account
    /\ Cardinality(approvals) < MaxApprovals
    /\ identity' = [identity EXCEPT ![m] =
           Compacted([i EXCEPT !.devices = Upserted(@, Device(r.id, r.mailbox))])]
    /\ approvals' = approvals \cup
           {[account |-> i.account, target |-> r.id, devices |-> i.devices]}
    /\ reenrolled' = (reenrolled \/ \E d \in i.devices :
                                      d.mailbox = r.mailbox /\ d.id # r.id)
    /\ UNCHANGED <<pending, running, requests, contact, net, made, month, updates, faults>>

\* device enroll approve; a request can be approved again, and elsewhere.
Approve(m, r) ==
    LET i == identity[m]
        devices == Upserted(i.devices, Device(r.id, r.mailbox)) IN
    /\ i # None /\ r.account = i.account
    /\ Cardinality(approvals) < MaxApprovals
    /\ identity' = [identity EXCEPT ![m] = Compacted([i EXCEPT !.devices = devices])]
    /\ approvals' = approvals \cup
           {[account |-> i.account, target |-> r.id, devices |-> devices]}
    /\ reenrolled' = (reenrolled \/ \E d \in i.devices :
                                      d.mailbox = r.mailbox /\ d.id # r.id)
    /\ UNCHANGED <<pending, running, requests, contact, net, made, month, updates, faults>>

\* PendingEnrollment.Complete, for the approval sealed to its key.
Completed(p, a) ==
    [account |-> a.account, current |-> p.id, secret |-> p.id, devices |-> a.devices]

Fits(p, a) == p # None /\ a.account = p.account /\ a.target = p.id

\* device enroll complete: the identity is saved, whatever was there before,
\* and then the pending enrollment removed; a crash leaves it.
Complete(m, a, crash) ==
    /\ Fits(pending[m], a)
    /\ Valid(Completed(pending[m], a))
    /\ identity' = [identity EXCEPT ![m] = Compacted(Completed(pending[m], a))]
    /\ crash => faults < MaxFaults
    /\ pending' = IF crash THEN pending ELSE [pending EXCEPT ![m] = None]
    /\ faults' = IF crash THEN faults + 1 ELSE faults
    /\ UNCHANGED <<running, requests, approvals, contact, net, made, month,
                   updates, reenrolled>>

\* RevokeDevice refuses the device it runs on.
Revocable(i) == {d \in i.devices : ~d.revoked /\ d.id # i.current}

\* device revoke
Revoke(m) ==
    LET i == identity[m] IN
    /\ i # None
    /\ \E d \in Revocable(i) :
          identity' = [identity EXCEPT ![m] = Compacted([i EXCEPT !.devices =
             (@ \ {d}) \cup {[d EXCEPT !.revoked = TRUE, !.at = month]}])]
    /\ UNCHANGED <<pending, running, requests, approvals, contact, net, made,
                   month, updates, faults, reenrolled>>

\* messaging.New: the chat client starts only with a valid identity, and
\* keeps what it loaded.
Start(m) ==
    /\ identity[m] # None /\ Valid(identity[m])
    /\ running[m] # identity[m]
    /\ running' = [running EXCEPT ![m] = identity[m]]
    /\ UNCHANGED <<identity, pending, requests, approvals, contact, net, made,
                   month, updates, faults, reenrolled>>

\* contactUpdateEnvelopes: the list goes with every message to the contact,
\* and session.Encrypt seals every envelope.
SendUpdate(m) ==
    LET i == running[m] IN
    /\ i # None /\ updates < MaxUpdates
    /\ updates' = updates + 1
    /\ net' = net \cup {[mailbox |-> m, account |-> i.account, sealed |-> TRUE,
                        secret |-> i.secret, devices |-> i.devices]}
    /\ UNCHANGED <<identity, pending, running, requests, approvals, contact,
                   made, month, faults, reenrolled>>

\* LoadContactByDeviceMailbox and session.Decrypt, which asks the key, the
\* signature and the revocation only of an envelope that is sealed: one that
\* has no BodyEncoding returns its body first.
FromActiveDevice(u) ==
    \E sender \in DeviceByMailbox(contact, u.mailbox) :
        u.sealed => ~sender.revoked /\ sender.key = u.secret

\* VerifyInvite: no signature is asked of a revoked device.
Verified(devices) ==
    devices # {} /\ \A d \in devices : ~d.revoked => Signed(d)

\* applyContactUpdate, for a list of the account it has stored; or the update
\* is refused or lost.
ReceiveUpdate(u) ==
    /\ net' = net \ {u}
    /\ \/ /\ FromActiveDevice(u) /\ Verified(u.devices) /\ u.account = Account
          /\ contact' = u.devices
       \/ contact' = contact
    /\ UNCHANGED <<identity, pending, running, requests, approvals, made,
                   month, updates, faults, reenrolled>>

\* A month goes by.
Month ==
    /\ month < MaxMonths
    /\ month' = month + 1
    /\ UNCHANGED <<identity, pending, running, requests, approvals, contact,
                   net, made, updates, faults, reenrolled>>

Command(m) ==
    \/ CreateIdentity(m) \/ Revoke(m)
    \/ \E a \in Machine : CreateEnrollment(m, a)
    \/ \E r \in requests : Approve(m, r)
    \/ \E a \in approvals, crash \in BOOLEAN : Complete(m, a, crash)

Next ==
    \/ \E m \in Machine : Command(m) \/ Start(m) \/ SendUpdate(m)
    \/ \E u \in net : ReceiveUpdate(u)
    \/ Month

Spec == Init /\ [][Next]_vars

-----------------------------------------------------------------------------
\* As long as no mailbox is approved under a second device id, every identity
\* on disk is one the chat client starts with (messaging.New validates it),
\* and every approval that fits a pending enrollment completes it.
EnrollmentWorks ==
    ~reenrolled =>
       /\ \A m \in Machine : identity[m] # None => Valid(identity[m])
       /\ \A m \in Machine : \A a \in approvals :
             Fits(pending[m], a) => Valid(Completed(pending[m], a))

\* d founded account a, or asked to join it and was approved by a device of it.
BelongsTo(a, d) ==
    \/ d.mailbox = a /\ \A r \in requests : r.id # d.key
    \/ \E r \in requests, p \in approvals :
          /\ r.account = a /\ r.id = d.key /\ r.mailbox = d.mailbox
          /\ p.account = a /\ p.target = d.key

\* However lists travel in approvals and updates, are merged, compacted and
\* overtaken by older ones, and whichever accounts a machine made or joined:
\* every device that an identity or the contact lists under an account made
\* that account, or asked to join that very account and was approved there.
DevicesWereApproved ==
    /\ \A m \in Machine : identity[m] # None =>
          \A d \in identity[m].devices : BelongsTo(identity[m].account, d)
    /\ \A d \in contact : BelongsTo(Account, d)
=============================================================================
