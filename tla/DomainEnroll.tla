---------------------------- MODULE DomainEnroll ----------------------------
(***************************************************************************)
(* The domain's certificates (domain/signer.py, enroll.py): the roots and  *)
(* the bundle every peer holds, the leaves signed under them, and how a    *)
(* box gets its first one - by a voucher of its manufacturer or by the     *)
(* approval of an operator - and renews it.                                *)
(*                                                                         *)
(* A root is a generation, which is its name, and a key; the bundle is     *)
(* keyed by name. A leaf carries the root that signed it, the key it was   *)
(* asked for and its end. Signatures are what they are made over; keys are *)
(* numbered in the order they are drawn. An IDevID is valid for ever.      *)
(***************************************************************************)
EXTENDS Integers, FiniteSets

CONSTANTS Pledges,
          LeafLife, LeafMargin, RootOverlap, ApprovalTTL, VoucherLife,   \* in units of the clock
          MaxDays, MaxRoots, MaxHellos, MaxRestarts

ASSUME EnrollAssumption ==
  /\ {LeafLife, LeafMargin, RootOverlap, ApprovalTTL, VoucherLife} \subseteq Nat \ {0}
  /\ {MaxDays, MaxRoots} \subseteq Nat \ {0} /\ {MaxHellos, MaxRestarts} \subseteq Nat

VARIABLES day,
          root, lastKey, unsaved, storedRoot, backup, restarts,    \* the signer, domain/signer, its backup
          bundle,                                                  \* name -> key and retirement (0: none)
          waiting, voucher,                                        \* the registrar; the MASA's last answer
          pledge, answer,                                          \* the boxes; a certificate on its way
          torn                                                     \* history: the bundle and the signer disagree
signerState == <<root, lastKey, unsaved, storedRoot, backup, restarts, bundle, torn>>
boxState == <<waiting, voucher, pledge, answer>>
enrollVars == <<day, signerState, boxState>>

NoLeaf == [gen |-> 0, key |-> 0, pub |-> 0, end |-> 0]
NoHello == [pub |-> 0, expires |-> 0]

EnrollInit ==
  /\ day = 1
  /\ root = [gen |-> 1, key |-> 1] /\ lastKey = 1 /\ storedRoot = root /\ backup = root
  /\ unsaved = FALSE /\ torn = FALSE /\ restarts = 0
  /\ bundle = [g \in {1} |-> [key |-> 1, retire |-> 0]]
  /\ waiting = [p \in Pledges |-> NoHello] /\ voucher = [p \in Pledges |-> [nonce |-> 0, end |-> 0]]
  /\ pledge = [p \in Pledges |-> [pub |-> 0, hellos |-> 0, temp |-> TRUE, leaf |-> NoLeaf]]
  /\ answer = [p \in Pledges |-> NoLeaf]

NextDay == day < MaxDays /\ day' = day + 1 /\ UNCHANGED <<signerState, boxState>>

\* Signer.issue under the current root. A signer that is rotating does nothing else.
Issue(pub) == [gen |-> root.gen, key |-> root.key, pub |-> pub, end |-> day + LeafLife]

\* TrustBundle.verify, without its tolerance: the root by name, its retirement, the signature, the end.
BundleAccepts(c) ==
  /\ c.gen \in DOMAIN bundle /\ (bundle[c.gen].retire = 0 \/ day < bundle[c.gen].retire)
  /\ bundle[c.gen].key = c.key /\ day <= c.end

-----------------------------------------------------------------------------
\* Pledge.hello draws a new key, kept at once; the hello may be lost on the way.
Greeted(p) == [pledge EXCEPT ![p].pub = @ + 1, ![p].hellos = @ + 1]
CanGreet(p) == pledge[p].hellos < MaxHellos /\ pledge[p].leaf = NoLeaf
HelloLost(p) ==
  /\ CanGreet(p) /\ pledge' = Greeted(p)
  /\ UNCHANGED <<day, signerState, waiting, voucher, answer>>

\* Registrar.expire_pending.
Unexpired == [q \in Pledges |-> IF waiting[q].expires <= day THEN NoHello ELSE waiting[q]]

\* Registrar.request: the latest hello of a serial is the one that waits.
Request(p) ==
  /\ CanGreet(p) /\ ~unsaved /\ pledge' = Greeted(p)
  /\ waiting' = [Unexpired EXCEPT ![p] = [pub |-> pledge'[p].pub, expires |-> day + ApprovalTTL]]
  /\ UNCHANGED <<day, signerState, voucher, answer>>

\* Registrar.approve: what has expired goes first, then this one, answered with a certificate.
Approve(p) ==
  /\ ~unsaved /\ waiting[p] # NoHello /\ answer[p] = NoLeaf
  /\ waiting' = [Unexpired EXCEPT ![p] = NoHello]
  /\ answer' = IF Unexpired[p] = NoHello THEN answer ELSE [answer EXCEPT ![p] = Issue(waiting[p].pub)]
  /\ UNCHANGED <<day, signerState, voucher, pledge>>

Reject(p) ==
  /\ waiting[p] # NoHello /\ waiting' = [waiting EXCEPT ![p] = NoHello]
  /\ UNCHANGED <<day, signerState, voucher, pledge, answer>>

\* Manufacturer.voucher, for a box that was sold to this domain: the nonce is that of its last hello.
Voucher(p) ==
  /\ pledge[p].hellos > 0 /\ pledge[p].leaf = NoLeaf
  /\ voucher[p].nonce < pledge[p].pub
  /\ voucher' = [voucher EXCEPT ![p] = [nonce |-> pledge[p].pub, end |-> day + VoucherLife]]
  /\ UNCHANGED <<day, signerState, waiting, pledge, answer>>

\* enroll_with_voucher: the voucher names this box and this hello, and has not expired.
EnrollWithVoucher(p) ==
  /\ ~unsaved /\ answer[p] = NoLeaf /\ pledge[p].leaf = NoLeaf
  /\ voucher[p].end >= day /\ answer' = [answer EXCEPT ![p] = Issue(voucher[p].nonce)]
  /\ UNCHANGED <<day, signerState, waiting, voucher, pledge>>

\* finish: a certificate that the bundle accepts is kept and the first credential goes.
Finish(p) ==
  /\ answer[p] # NoLeaf /\ pledge[p].leaf = NoLeaf /\ answer' = [answer EXCEPT ![p] = NoLeaf]
  /\ pledge' = IF BundleAccepts(answer[p]) THEN [pledge EXCEPT ![p].leaf = answer[p], ![p].temp = FALSE]
               ELSE pledge
  /\ UNCHANGED <<day, signerState, waiting, voucher>>

\* needs_renewal and renew: the same key, a new window, the root of the day.
Renew(p) ==
  /\ ~unsaved /\ pledge[p].leaf # NoLeaf /\ day >= pledge[p].leaf.end - LeafMargin
  /\ pledge' = [pledge EXCEPT ![p].leaf = Issue(@.pub)]
  /\ UNCHANGED <<day, signerState, waiting, voucher, answer>>

-----------------------------------------------------------------------------
\* As a bug: two generations share a name, which is one root to the bundle.
NextNameSame == root.gen
\* rotate_root. The new root has a name of its own; it goes into the bundle, the old one is given a date,
\* and only then is the new one stored.
NextName == root.gen + 1
RotateRoot ==
  /\ ~unsaved /\ lastKey < MaxRoots /\ lastKey' = lastKey + 1
  /\ root' = [gen |-> NextName, key |-> lastKey + 1] /\ unsaved' = TRUE
  /\ bundle' = [g \in DOMAIN bundle \cup {NextName} |->
                  IF g = root.gen THEN [key |-> root.key, retire |-> day + RootOverlap]
                  ELSE IF g = NextName THEN [key |-> lastKey + 1, retire |-> 0]
                  ELSE bundle[g]]
  /\ UNCHANGED <<day, storedRoot, backup, restarts, torn, boxState>>
PersistRoot ==
  /\ unsaved /\ unsaved' = FALSE /\ storedRoot' = root
  /\ UNCHANGED <<day, root, lastKey, backup, restarts, bundle, torn, boxState>>

TakeBackup ==
  /\ backup # storedRoot /\ backup' = storedRoot
  /\ UNCHANGED <<day, root, lastKey, unsaved, storedRoot, restarts, bundle, torn, boxState>>

\* The signer dies and is started again from domain/signer, or somewhere else from the backup
\* (Signer.restore); requests that wait for approval were in its memory.
RestartFrom(saved) ==
  /\ restarts < MaxRestarts /\ restarts' = restarts + 1
  /\ root' = saved /\ storedRoot' = saved /\ unsaved' = FALSE
  /\ torn' = (torn \/ saved # root)
  /\ waiting' = [p \in Pledges |-> NoHello]
  /\ UNCHANGED <<day, lastKey, backup, bundle, voucher, pledge, answer>>
RestartSigner == RestartFrom(storedRoot)
RestoreSigner == RestartFrom(backup)

EnrollNext ==
  \/ NextDay \/ RotateRoot \/ PersistRoot \/ TakeBackup \/ RestartSigner \/ RestoreSigner
  \/ \E p \in Pledges : \/ HelloLost(p) \/ Request(p) \/ Approve(p) \/ Reject(p) \/ Voucher(p)
                        \/ EnrollWithVoucher(p) \/ Finish(p) \/ Renew(p)

-----------------------------------------------------------------------------
EnrollTypeOK ==
  /\ day \in 1..MaxDays /\ lastKey \in 1..MaxRoots /\ restarts \in 0..MaxRestarts
  /\ \A r \in {root, storedRoot, backup} : r.gen \in DOMAIN bundle /\ r.key \in 1..lastKey
  /\ \A g \in DOMAIN bundle : bundle[g].key \in 1..lastKey /\ bundle[g].retire \in 0..(MaxDays + RootOverlap)
  /\ \A p \in Pledges : pledge[p].temp = (pledge[p].leaf = NoLeaf) /\ waiting[p].pub <= pledge[p].pub

(* Whatever rotations and renewals happen, a box whose certificate has not run out is accepted by      *)
(* every peer that holds the bundle, and so is one that has just been signed: nothing goes dark        *)
(* (rotate_root, TrustBundle, renew). It speaks of a signer that did not die inside rotate_root and    *)
(* was not restored from a backup older than its root, and of an overlap as long as a leaf's life.     *)
NeverDark ==
  ~torn => /\ \A p \in Pledges : LET c == pledge[p].leaf IN
                c # NoLeaf /\ day <= c.end => BundleAccepts(c)
           /\ BundleAccepts(Issue(0))
=============================================================================
