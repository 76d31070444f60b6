-------------------------- MODULE UserAdministration --------------------------
(***************************************************************************)
(* The user accounts of the curation API: the seed of the first            *)
(* administrator when an instance starts, self-registration, creation and  *)
(* change of accounts by an administrator, and the check of the caller's   *)
(* account that precedes every request.                                    *)
(*                                                                         *)
(* An account is one MongoDB document.  A change reads it, may count the   *)
(* active administrators, and replaces the whole document by the one it    *)
(* read with the changes applied.  Tokens are signed and hold no state of  *)
(* the service: any user may present one, and the account decides.         *)
(* Passwords are left out: a change of one is a change like any other.     *)
(***************************************************************************)
EXTENDS Integers, FiniteSets

CONSTANTS
  Users,            \* account ids
  Emails,
  AdminEmail,       \* ADMIN_EMAIL of the settings
  Clients,          \* who has a request (or a start-up) in progress
  Patches,          \* changes of accounts that are asked for
  NewFlags,         \* flags that accounts are created with
  MaxUserRequests,  \* bound: requests, start-ups not counted
  None

ASSUME AdminAssumption == AdminEmail \in Emails /\ MaxUserRequests \in Nat

Flags == {"active", "superuser", "verified"}
Account == [email: Emails, flags: SUBSET Flags]

\* UserPatchRequest: the flags set to true and those set to false.
Patch == {p \in [set: SUBSET Flags, clear: SUBSET Flags] : p.set \intersect p.clear = {}}
NoPatch == [set |-> {}, clear |-> {}]

ASSUME RequestsAssumption == Patches \subseteq Patch /\ NewFlags \subseteq SUBSET Flags
ASSUME NoneAssumption == None \notin Users /\ None \notin Account

\* read: the account as a patch has read it, or the one about to be created.
Job == [at: {"looking", "guarding", "saving"}, user: Users \union {None},
        read: Account \union {None}, patch: Patch]

VARIABLES
  account,  \* account[u]: the document of u, or None
  job,      \* job[c]: the request of c in progress, or None
  calls,    \* requests so far
  raced     \* history: two changes of accounts have overlapped

userVars == <<account, job, calls, raced>>

Exists(u) == account[u] # None
EmailTaken(e) == \E u \in Users : Exists(u) /\ account[u].email = e
ActiveAdmins == {u \in Users : Exists(u) /\ {"active", "superuser"} \subseteq account[u].flags}

\* get_current_user_context, then require_verified or require_admin: a valid token
\* is worth what the account says now.
Authorised(u, flag) == Exists(u) /\ {"active", flag} \subseteq account[u].flags

\* Instances serve requests only after the seed.
Serving == \E u \in Users : Exists(u)

Changing(c) == job[c] # None /\ job[c].user # None
At(c, step) == job[c] # None /\ job[c].at = step
End(c) == job' = [job EXCEPT ![c] = None]
\* Mutants: the patch is saved in place of the account; the flags that the request
\* does not name are dumped as false.
PatchedWithout(a, p) == p
PatchedAll(a, p) == [a EXCEPT !.flags = p.set]
Patched(a, p) == [a EXCEPT !.flags = (@ \union p.set) \ p.clear]

UserInit ==
  /\ account = [u \in Users |-> None]
  /\ job = [c \in Clients |-> None]
  /\ calls = 0
  /\ raced = FALSE

-----------------------------------------------------------------------------
Begin(c, u, a, p) ==
  /\ job[c] = None
  /\ job' = [job EXCEPT ![c] = [at |-> "looking", user |-> u, read |-> a, patch |-> p]]
  /\ UNCHANGED <<account, raced>>

Request == calls < MaxUserRequests /\ calls' = calls + 1

\* _seed_admin_user, at the start of an instance.
Seed(c) ==
  /\ Begin(c, None, [email |-> AdminEmail, flags |-> Flags], NoPatch)
  /\ UNCHANGED calls

RegisterUser(c, e) ==
  /\ Serving
  /\ Begin(c, None, [email |-> e, flags |-> {"active"}], NoPatch)
  /\ Request

CreateUser(c, admin, a) ==
  /\ Authorised(admin, "superuser")
  /\ Begin(c, None, a, NoPatch)
  /\ Request

PatchUser(c, admin, u, p) ==
  /\ Authorised(admin, "superuser")
  /\ Begin(c, u, None, p)
  /\ Request

-----------------------------------------------------------------------------
\* find_by_email: the address is taken (a seed has nothing to do).
FindTaken(c) ==
  /\ At(c, "looking") /\ ~Changing(c)
  /\ EmailTaken(job[c].read.email)
  /\ End(c)
  /\ UNCHANGED <<account, calls, raced>>

FindFree(c) ==
  /\ At(c, "looking") /\ ~Changing(c)
  /\ ~EmailTaken(job[c].read.email)
  /\ job' = [job EXCEPT ![c].at = "saving"]
  /\ UNCHANGED <<account, calls, raced>>

\* The unique index on the address.  Mutant: IndexAdmitsAll, without it.
IndexAdmitsAll(a) == TRUE
IndexAdmits(a) == ~EmailTaken(a.email)

\* save under a fresh uuid.
SaveNew(c, u) ==
  /\ At(c, "saving") /\ ~Changing(c)
  /\ ~Exists(u)
  /\ IndexAdmits(job[c].read)
  /\ account' = [account EXCEPT ![u] = job[c].read]
  /\ End(c)
  /\ UNCHANGED <<calls, raced>>

\* DuplicateKeyError: an internal error, not the conflict that the check reports.
SaveDuplicate(c) ==
  /\ At(c, "saving") /\ ~Changing(c)
  /\ ~IndexAdmits(job[c].read)
  /\ End(c)
  /\ UNCHANGED <<account, calls, raced>>

\* patch_user reads the account.
FindNoUser(c) ==
  /\ At(c, "looking") /\ Changing(c)
  /\ ~Exists(job[c].user)
  /\ End(c)
  /\ UNCHANGED <<account, calls, raced>>

\* Nothing to change: the account is returned as it is.
ReadUnchanged(c) ==
  /\ At(c, "looking") /\ Changing(c)
  /\ Exists(job[c].user)
  /\ job[c].patch = NoPatch
  /\ End(c)
  /\ UNCHANGED <<account, calls, raced>>

\* _guard_last_admin looks at the account read, not at the stored one.
\* Mutant: only deactivation is guarded, not the removal of the role.
GuardedDeactivation(a, p) ==
  {"active", "superuser"} \subseteq a.flags /\ "active" \in p.clear
Guarded(a, p) ==
  {"active", "superuser"} \subseteq a.flags /\ p.clear \intersect {"active", "superuser"} # {}

ReadAccount(c) ==
  LET a == account[job[c].user]
  IN /\ At(c, "looking") /\ Changing(c)
     /\ a # None
     /\ job[c].patch # NoPatch
     /\ job' = [job EXCEPT ![c].read = a,
                  ![c].at = IF Guarded(a, job[c].patch) THEN "guarding" ELSE "saving"]
     /\ raced' = (raced \/ \E d \in Clients : Changing(d) /\ ~At(d, "looking"))
     /\ UNCHANGED <<account, calls>>

\* count_active_admins.
LastAdmin(c) ==
  /\ At(c, "guarding")
  /\ Cardinality(ActiveAdmins) <= 1
  /\ End(c)
  /\ UNCHANGED <<account, calls, raced>>

PassGuard(c) ==
  /\ At(c, "guarding")
  /\ Cardinality(ActiveAdmins) > 1
  /\ job' = [job EXCEPT ![c].at = "saving"]
  /\ UNCHANGED <<account, calls, raced>>

\* replace_one of the whole document.
SavePatched(c) ==
  /\ At(c, "saving") /\ Changing(c)
  /\ account' = [account EXCEPT ![job[c].user] = Patched(job[c].read, job[c].patch)]
  /\ End(c)
  /\ UNCHANGED <<calls, raced>>

\* The database fails, or the instance dies.
Abort(c) ==
  /\ job[c] # None
  /\ End(c)
  /\ UNCHANGED <<account, calls, raced>>

-----------------------------------------------------------------------------
UserRequest(c) ==
  \/ \E e \in Emails : RegisterUser(c, e)
  \/ \E admin \in Users, a \in [email: Emails, flags: NewFlags] : CreateUser(c, admin, a)
  \/ \E admin \in Users, u \in Users, p \in Patches : PatchUser(c, admin, u, p)

UserStep(c) ==
  \/ Seed(c)
  \/ FindTaken(c)
  \/ FindFree(c)
  \/ \E u \in Users : SaveNew(c, u)
  \/ SaveDuplicate(c)
  \/ FindNoUser(c)
  \/ ReadUnchanged(c)
  \/ ReadAccount(c)
  \/ LastAdmin(c)
  \/ PassGuard(c)
  \/ SavePatched(c)
  \/ Abort(c)

UserNext == \E c \in Clients : UserRequest(c) \/ UserStep(c)

UserSpec == UserInit /\ [][UserNext]_userVars

-----------------------------------------------------------------------------
UserTypeOK ==
  /\ account \in [Users -> Account \union {None}]
  /\ job \in [Clients -> Job \union {None}]
  /\ calls \in Nat
  /\ raced \in BOOLEAN

\* No two accounts share an address, however their creations overlap.
EmailsUnique ==
  \A u, v \in Users : Exists(u) /\ Exists(v) /\ account[u].email = account[v].email => u = v

\* Once seeded the service keeps an active administrator, as long as changes of
\* accounts do not overlap (two administrators who deactivate each other at once
\* both pass the guard).
ActiveAdminRemains == Serving /\ ~raced => ActiveAdmins # {}

\* A change alters what its request names and nothing else, as long as changes do
\* not overlap (of two that do, the later save restores what the earlier changed).
ChangedAsAsked ==
  [][\A u \in Users : Exists(u) /\ account'[u] # account[u] /\ ~raced =>
       \E c \in Clients : /\ Changing(c) /\ job[c].user = u
                          /\ account'[u] = [account[u] EXCEPT
                               !.flags = (@ \union job[c].patch.set) \ job[c].patch.clear]]_userVars
=============================================================================
