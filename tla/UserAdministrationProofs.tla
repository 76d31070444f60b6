----------------------- MODULE UserAdministrationProofs -----------------------
(***************************************************************************)
(* Theorems about UserAdministration for every set of accounts, addresses, *)
(* clients and changes.                                                    *)
(***************************************************************************)
EXTENDS UserAdministration, FiniteSetTheorems, TLAPS

\* A change that has read its account and not yet saved it.
Underway(c) == Changing(c) /\ ~At(c, "looking")

\* What a request in progress holds.  An account about to be created is one; an
\* account that is being changed is there, under the address that was read.
JobMatches(c) ==
  job[c] # None =>
    /\ ~Changing(c) => job[c].read \in Account /\ ~At(c, "guarding")
    /\ Underway(c) => /\ Exists(job[c].user)
                      /\ job[c].read \in Account
                      /\ job[c].read.email = account[job[c].user].email
JobsMatchAccounts == \A c \in Clients : JobMatches(c)

\* Before the seed there is nothing but seeds.
OnlySeeds ==
  ~Serving => \A c \in Clients : job[c] # None =>
    /\ ~Changing(c)
    /\ job[c].read = [email |-> AdminEmail, flags |-> Flags]

\* Until changes overlap, one is under way at most, what it has read is what is
\* stored, and if it takes an administrator away there is another one.
ChangesAlone ==
  ~raced => \A c \in Clients : Underway(c) =>
    /\ \A d \in Clients \ {c} : ~Underway(d)
    /\ job[c].read = account[job[c].user]
    /\ At(c, "saving") /\ Guarded(job[c].read, job[c].patch) =>
         \E v \in ActiveAdmins : v # job[c].user

-----------------------------------------------------------------------------
LEMMA PatchedType ==
  ASSUME NEW a \in Account, NEW p \in Patch
  PROVE  Patched(a, p) \in Account /\ Patched(a, p).email = a.email
  BY DEF Patched, Account, Patch

\* The two ways in which most steps rewrite a request: it begins, or it ends.
LEMMA BeginKeeps ==
  ASSUME UserTypeOK, NEW c \in Clients, NEW u \in Users \union {None},
         NEW a \in Account \union {None}, NEW p \in Patch, Begin(c, u, a, p),
         calls' \in Nat, u = None => a \in Account
  PROVE  UserTypeOK' /\ JobMatches(c)'
  <1>1. [at |-> "looking", user |-> u, read |-> a, patch |-> p] \in Job
    BY DEF Job
  <1>2. UserTypeOK'
    BY <1>1 DEF UserTypeOK, Begin
  <1>3. job'[c] = [at |-> "looking", user |-> u, read |-> a, patch |-> p]
    BY DEF UserTypeOK, Begin
  <1>. QED
    BY <1>2, <1>3 DEF JobMatches, Underway, Changing, At

LEMMA EndKeeps ==
  ASSUME UserTypeOK, NEW c \in Clients, End(c), account' \in [Users -> Account \union {None}],
         UNCHANGED <<calls, raced>>
  PROVE  UserTypeOK' /\ JobMatches(c)'
  BY DEF UserTypeOK, End, JobMatches

\* No step removes an account or changes its address, and a step of one client
\* leaves the requests of the others alone.
Kept == \A u \in Users : Exists(u) => /\ account'[u] \in Account
                                       /\ account'[u].email = account[u].email
Alone(c) == \A d \in Clients \ {c} : job'[d] = job[d]

LEMMA StepFrame ==
  ASSUME UserTypeOK, JobsMatchAccounts, NEW c \in Clients, UserRequest(c) \/ UserStep(c)
  PROVE  Kept /\ Alone(c)
  <1>1. CASE account' = account
    <2>1. Kept
      BY <1>1 DEF UserTypeOK, Kept, Exists
    <2>2. Alone(c)
      BY DEF Alone, UserTypeOK, UserRequest, UserStep, RegisterUser, CreateUser, PatchUser, Begin, Seed,
         FindTaken, FindFree, SaveNew, SaveDuplicate, FindNoUser, ReadUnchanged, ReadAccount,
         LastAdmin, PassGuard, SavePatched, Abort, End
    <2>. QED
      BY <2>1, <2>2
  <1>2. ASSUME NEW u \in Users, SaveNew(c, u) PROVE Kept /\ Alone(c)
    BY <1>2 DEF SaveNew, End, Kept, Alone, Exists, UserTypeOK
  <1>3. CASE SavePatched(c)
    <2>1. Underway(c) /\ job[c] \in Job /\ job[c].user \in Users
      BY <1>3 DEF SavePatched, Underway, At, Changing, UserTypeOK, Job
    <2>2. /\ job[c].read \in Account /\ job[c].patch \in Patch
          /\ job[c].read.email = account[job[c].user].email
      BY <2>1 DEF JobsMatchAccounts, JobMatches, Underway, Changing, Job
    <2>3. /\ Patched(job[c].read, job[c].patch) \in Account
          /\ Patched(job[c].read, job[c].patch).email = account[job[c].user].email
      BY <2>2, PatchedType
    <2>. QED
      BY <1>3, <2>1, <2>3 DEF SavePatched, End, Kept, Alone, Exists, UserTypeOK
  <1>4. account' = account \/ (\E u \in Users : SaveNew(c, u)) \/ SavePatched(c)
    BY DEF UserRequest, UserStep, RegisterUser, CreateUser, PatchUser, Begin, Seed,
       FindTaken, FindFree, SaveDuplicate, FindNoUser, ReadUnchanged, ReadAccount,
       LastAdmin, PassGuard, Abort
  <1>. QED
    BY <1>1, <1>2, <1>3, <1>4

\* The variables of the account administration keep their types: among others a
\* saved account is an account, whatever change was applied to what was read.
THEOREM AccountsTyped == UserSpec => [](UserTypeOK /\ JobsMatchAccounts)
  <1>1. UserInit => UserTypeOK /\ JobsMatchAccounts
    <2> SUFFICES ASSUME UserInit PROVE UserTypeOK /\ JobsMatchAccounts
      OBVIOUS
    <2>1. UserTypeOK
      BY DEF UserInit, UserTypeOK
    <2>2. JobsMatchAccounts
      BY DEF UserInit, JobsMatchAccounts, JobMatches
    <2>. QED
      BY <2>1, <2>2
  <1>2. UserTypeOK /\ JobsMatchAccounts /\ [UserNext]_userVars
          => UserTypeOK' /\ JobsMatchAccounts'
    <2> SUFFICES ASSUME UserTypeOK, JobsMatchAccounts, [UserNext]_userVars
                 PROVE  UserTypeOK' /\ JobsMatchAccounts'
      OBVIOUS
    <2>0. CASE UNCHANGED userVars
      BY <2>0 DEF userVars, UserTypeOK, JobsMatchAccounts, JobMatches, Changing, Underway,
         At, Exists
    <2>1. ASSUME NEW c \in Clients, UserRequest(c) \/ UserStep(c)
          PROVE  UserTypeOK' /\ JobsMatchAccounts'
      <3>1. Kept /\ Alone(c)
        BY <2>1, StepFrame
      <3>2. \A d \in Clients \ {c} : JobMatches(d)'
        <4> SUFFICES ASSUME NEW d \in Clients \ {c} PROVE JobMatches(d)'
          OBVIOUS
        <4>1. job'[d] = job[d] /\ JobMatches(d)
          BY <3>1 DEF Alone, JobsMatchAccounts
        <4>2. Underway(d) => job[d].user \in Users
          BY DEF Underway, Changing, UserTypeOK, Job
        <4>. QED
          BY <3>1, <4>1, <4>2, NoneAssumption DEF Kept, JobMatches, Underway, Changing, At, Exists
      <3>3. UserTypeOK' /\ JobMatches(c)'
        <4>. USE DEF UserTypeOK
        <4>0. /\ job[c] # None => job[c] \in Job
              /\ JobMatches(c)
              /\ NoPatch \in Patch
          BY DEF NoPatch, Patch, Flags, JobsMatchAccounts
        <4>1. ASSUME NEW e \in Emails, RegisterUser(c, e) PROVE UserTypeOK' /\ JobMatches(c)'
          <5>1. [email |-> e, flags |-> {"active"}] \in Account
            BY DEF Account, Flags
          <5>. QED
            BY <4>0, <4>1, <5>1, BeginKeeps DEF RegisterUser, Request
        <4>2. ASSUME NEW admin \in Users, NEW a \in [email: Emails, flags: NewFlags],
                     CreateUser(c, admin, a)
              PROVE  UserTypeOK' /\ JobMatches(c)'
          <5>1. a \in Account
            BY RequestsAssumption DEF Account
          <5>2. Begin(c, None, a, NoPatch) /\ calls' \in Nat
            BY <4>2 DEF CreateUser, Request
          <5>. QED
            BY <4>0, <5>1, <5>2, BeginKeeps
        <4>3. ASSUME NEW admin \in Users, NEW u \in Users, NEW p \in Patches,
                     PatchUser(c, admin, u, p)
              PROVE  UserTypeOK' /\ JobMatches(c)'
          BY <4>3, RequestsAssumption, NoneAssumption, BeginKeeps DEF PatchUser, Request
        <4>4. CASE Seed(c)
          <5>1. [email |-> AdminEmail, flags |-> Flags] \in Account
            BY AdminAssumption DEF Account
          <5>. QED
            BY <4>0, <4>4, <5>1, BeginKeeps DEF Seed
        <4>5. CASE \/ FindTaken(c) \/ SaveDuplicate(c) \/ FindNoUser(c) \/ ReadUnchanged(c)
                   \/ LastAdmin(c) \/ Abort(c)
          BY <4>5, EndKeeps DEF FindTaken, SaveDuplicate, FindNoUser, ReadUnchanged, LastAdmin, Abort
        <4>6. ASSUME NEW u \in Users, SaveNew(c, u) PROVE UserTypeOK' /\ JobMatches(c)'
          <5>1. job[c].read \in Account
            BY <4>0, <4>6 DEF SaveNew, At, JobMatches
          <5>. QED
            BY <4>6, <5>1, EndKeeps DEF SaveNew
        <4>7. CASE SavePatched(c)
          <5>1. /\ job[c].user \in Users /\ job[c].patch \in Patch
                /\ job[c].read \in Account
            BY <4>0, <4>7 DEF SavePatched, At, JobMatches, Underway, Changing, Job
          <5>. QED
            BY <4>7, <5>1, PatchedType, EndKeeps DEF SavePatched
        <4>8. CASE FindFree(c) \/ PassGuard(c)
          <5>1. job'[c] = [job[c] EXCEPT !.at = "saving"] /\ job[c] \in Job /\ account' = account
            BY <4>0, <4>8 DEF FindFree, PassGuard, At
          <5>2. UserTypeOK'
            BY <4>8, <5>1 DEF FindFree, PassGuard, Job
          <5>3. JobMatches(c)'
            BY <4>0, <4>8, <5>1 DEF FindFree, PassGuard, JobMatches, Underway, Changing, At,
               Exists, Job
          <5>. QED
            BY <5>2, <5>3
        <4>9. CASE ReadAccount(c)
          <5>1. PICK step \in {"guarding", "saving"} :
                  job' = [job EXCEPT ![c].read = account[job[c].user], ![c].at = step]
            BY <4>9 DEF ReadAccount
          <5>2. /\ job[c] \in Job /\ job[c].user \in Users
                /\ account[job[c].user] \in Account /\ account' = account
            BY <4>0, <4>9 DEF ReadAccount, At, Changing, Job
          <5>3. job'[c] = [job[c] EXCEPT !.read = account[job[c].user], !.at = step]
            BY <5>1
          <5>4. UserTypeOK'
            <6>1. [job[c] EXCEPT !.read = account[job[c].user], !.at = step] \in Job
              BY <5>2 DEF Job
            <6>2. job' \in [Clients -> Job \union {None}]
              BY <5>1, <6>1
            <6>3. raced' \in BOOLEAN
              BY <4>9, Zenon DEF ReadAccount
            <6>. QED
              BY <4>9, <5>2, <6>2, <6>3 DEF ReadAccount
          <5>5. JobMatches(c)'
            BY <4>9, <5>2, <5>3 DEF ReadAccount, JobMatches, Underway, Changing, At, Exists, Job
          <5>. QED
            BY <5>4, <5>5
        <4>. QED
          BY <2>1, <4>1, <4>2, <4>3, <4>4, <4>5, <4>6, <4>7, <4>8, <4>9
             DEF UserRequest, UserStep
      <3>. QED
        BY <3>2, <3>3 DEF JobsMatchAccounts
    <2>. QED
      BY <2>0, <2>1 DEF UserNext
  <1>. QED
    BY <1>1, <1>2, PTL DEF UserSpec

-----------------------------------------------------------------------------
\* What a step does to the accounts: nothing, a new one, or a changed one.
LEMMA AccountStep ==
  ASSUME NEW c \in Clients, UserRequest(c) \/ UserStep(c)
  PROVE  account' = account \/ (\E u \in Users : SaveNew(c, u)) \/ SavePatched(c)
  BY DEF UserRequest, UserStep, RegisterUser, CreateUser, PatchUser, Begin, Seed,
     FindTaken, FindFree, SaveDuplicate, FindNoUser, ReadUnchanged, ReadAccount,
     LastAdmin, PassGuard, Abort

\* No two accounts share an address, however their creations overlap: the look-up
\* before the creation plays no part in it, the index does.
THEOREM AddressesUnique == UserSpec => []EmailsUnique
  <1>1. UserInit => EmailsUnique
    BY DEF UserInit, EmailsUnique, Exists
  <1>2. UserTypeOK /\ JobsMatchAccounts /\ EmailsUnique /\ [UserNext]_userVars => EmailsUnique'
    <2> SUFFICES ASSUME UserTypeOK, JobsMatchAccounts, EmailsUnique, [UserNext]_userVars
                 PROVE  EmailsUnique'
      OBVIOUS
    <2>0. CASE UNCHANGED userVars
      BY <2>0 DEF userVars, EmailsUnique, Exists
    <2>1. ASSUME NEW c \in Clients, UserRequest(c) \/ UserStep(c) PROVE EmailsUnique'
      <3>1. CASE account' = account
        BY <3>1 DEF EmailsUnique, Exists
      <3>2. ASSUME NEW u \in Users, SaveNew(c, u) PROVE EmailsUnique'
        BY <3>2 DEF SaveNew, IndexAdmits, EmailTaken, EmailsUnique, Exists, UserTypeOK
      <3>3. CASE SavePatched(c)
        <4>1. Kept
          BY <2>1, StepFrame
        <4>2. job[c].user \in Users /\ Exists(job[c].user)
          BY <3>3 DEF SavePatched, Underway, At, Changing, UserTypeOK, Job,
             JobsMatchAccounts, JobMatches
        <4>3. \A u \in Users : Exists(u)' => Exists(u)
          BY <3>3, <4>2 DEF SavePatched, Exists, UserTypeOK
        <4>. QED
          BY <4>1, <4>3 DEF Kept, EmailsUnique, Exists
      <3>. QED
        BY <2>1, <3>1, <3>2, <3>3, AccountStep
    <2>. QED
      BY <2>0, <2>1 DEF UserNext
  <1>. QED
    BY <1>1, <1>2, AccountsTyped, PTL DEF UserSpec

-----------------------------------------------------------------------------
\* More than one active administrator: one besides any given account.
LEMMA AnotherAdmin ==
  ASSUME NEW u \in Users, Cardinality(ActiveAdmins) > 1
  PROVE  \E v \in ActiveAdmins : v # u
  <1> SUFFICES ASSUME \A v \in ActiveAdmins : v = u PROVE FALSE
    OBVIOUS
  <1>1. ActiveAdmins = {} \/ ActiveAdmins = {u}
    OBVIOUS
  <1>2. Cardinality({}) = 0 /\ Cardinality({u}) = 1
    BY FS_EmptySet, FS_Singleton
  <1>. QED
    BY <1>1, <1>2

\* A step that neither reads nor writes an account for a change brings no change
\* under way, and leaves those of other clients alone.
Ordinary(c) == ~ReadAccount(c) /\ ~PassGuard(c) /\ ~SavePatched(c)
LEMMA OrdinaryStep ==
  ASSUME UserTypeOK, NEW c \in Clients, UserRequest(c) \/ UserStep(c), Ordinary(c)
  PROVE  ~Underway(c)'
  <1>1. CASE UserRequest(c) \/ Seed(c)
    <2>1. job'[c].at = "looking"
      BY <1>1 DEF UserRequest, RegisterUser, CreateUser, PatchUser, Seed, Begin, UserTypeOK
    <2>. QED
      BY <2>1 DEF Underway, At, Changing
  <1>2. CASE FindFree(c)
    <2>1. job'[c] = [job[c] EXCEPT !.at = "saving"] /\ job[c] \in Job /\ job[c].user = None
      BY <1>2 DEF FindFree, At, Changing, UserTypeOK
    <2>2. job'[c].user = None
      BY <2>1 DEF Job
    <2>. QED
      BY <2>2 DEF Underway, Changing
  <1>3. CASE End(c)
    BY <1>3 DEF End, Underway, Changing, UserTypeOK
  <1>. QED
    BY <1>1, <1>2, <1>3 DEF Ordinary, UserStep, FindTaken, SaveNew, SaveDuplicate, FindNoUser,
       ReadUnchanged, LastAdmin, Abort

LEMMA AloneKept ==
  ASSUME UserTypeOK, JobsMatchAccounts, ChangesAlone, NEW c \in Clients,
         UserRequest(c) \/ UserStep(c)
  PROVE  ChangesAlone'
  <1> SUFFICES ASSUME ~raced', NEW e \in Clients, Underway(e)'
               PROVE  /\ \A d \in Clients \ {e} : ~Underway(d)'
                      /\ (job[e].read = account[job[e].user])'
                      /\ (At(e, "saving") /\ Guarded(job[e].read, job[e].patch))' =>
                           \E v \in ActiveAdmins' : v # job'[e].user
    BY DEF ChangesAlone
  <1>1. Kept /\ Alone(c)
    BY StepFrame
  <1>2. ~raced
    BY DEF UserRequest, UserStep, RegisterUser, CreateUser, PatchUser, Begin, Seed,
       FindTaken, FindFree, SaveNew, SaveDuplicate, FindNoUser, ReadUnchanged, ReadAccount,
       LastAdmin, PassGuard, SavePatched, Abort
  <1>3. \A d \in Clients \ {c} : job'[d] = job[d] /\ (Underway(d)' <=> Underway(d))
    BY <1>1 DEF Alone, Underway, Changing, At
  <1>4. CASE Ordinary(c)
    <2>1. ~Underway(c)'
      BY <1>4, OrdinaryStep
    <2>2. e # c /\ Underway(e) /\ job'[e] = job[e] /\ \A d \in Clients \ {e} : ~Underway(d)'
      BY <2>1, <1>2, <1>3 DEF ChangesAlone
    <2>3. /\ job[e].user \in Users /\ Exists(job[e].user)
      BY <2>2 DEF Underway, Changing, UserTypeOK, Job, JobsMatchAccounts, JobMatches
    <2>4. account'[job[e].user] = account[job[e].user] /\ ActiveAdmins \subseteq ActiveAdmins'
      <3>1. CASE account' = account
        BY <3>1 DEF ActiveAdmins, Exists
      <3>2. ASSUME NEW u \in Users, SaveNew(c, u) PROVE <2>4
        BY <3>2, <2>3 DEF SaveNew, ActiveAdmins, Exists, UserTypeOK
      <3>. QED
        BY <3>1, <3>2, <1>4, AccountStep DEF Ordinary
    <2>5. /\ job[e].read = account[job[e].user]
          /\ At(e, "saving") /\ Guarded(job[e].read, job[e].patch) =>
               \E v \in ActiveAdmins : v # job[e].user
      BY <1>2, <2>2 DEF ChangesAlone
    <2>. QED
      BY <2>2, <2>4, <2>5 DEF At, Guarded
  <1>5. CASE ReadAccount(c)
    <2>1. \A d \in Clients : ~Underway(d)
      BY <1>5 DEF ReadAccount, Underway
    <2>2. e = c /\ \A d \in Clients \ {e} : ~Underway(d)'
      BY <2>1, <1>3
    <2>3. PICK step \in {"guarding", "saving"} :
            /\ job' = [job EXCEPT ![c].read = account[job[c].user], ![c].at = step]
            /\ step = "saving" => ~Guarded(account[job[c].user], job[c].patch)
      BY <1>5 DEF ReadAccount
    <2>4. job[c] \in Job
      BY <1>5 DEF ReadAccount, At, UserTypeOK
    <2>5. job'[c] = [job[c] EXCEPT !.read = account[job[c].user], !.at = step]
      BY <2>3 DEF UserTypeOK
    <2>6. /\ job'[c].read = account[job[c].user] /\ job'[c].user = job[c].user
          /\ job'[c].patch = job[c].patch /\ job'[c].at = step
      BY <2>4, <2>5 DEF Job
    <2>. QED
      BY <1>5, <2>2, <2>3, <2>6 DEF ReadAccount, At
  <1>6. CASE PassGuard(c)
    <2>1. job[c] \in Job /\ Underway(c) /\ job[c].user \in Users
      BY <1>6 DEF PassGuard, At, UserTypeOK, JobsMatchAccounts, JobMatches, Underway, Changing, Job
    <2>2. e = c /\ \A d \in Clients \ {e} : ~Underway(d)'
      BY <2>1, <1>2, <1>3 DEF ChangesAlone
    <2>3. job'[c] = [job[c] EXCEPT !.at = "saving"] /\ account' = account
      BY <1>6 DEF PassGuard, UserTypeOK
    <2>4. job'[c].read = job[c].read /\ job'[c].user = job[c].user
      BY <2>1, <2>3 DEF Job
    <2>5. \E v \in ActiveAdmins : v # job[c].user
      BY <1>6, <2>1, AnotherAdmin DEF PassGuard
    <2>6. ActiveAdmins' = ActiveAdmins
      BY <2>3 DEF ActiveAdmins, Exists
    <2>7. job[c].read = account[job[c].user]
      BY <1>2, <2>1 DEF ChangesAlone
    <2>. QED
      BY <2>2, <2>3, <2>4, <2>5, <2>6, <2>7
  <1>7. CASE SavePatched(c)
    <2>1. Underway(c) /\ job'[c] = None
      BY <1>7 DEF SavePatched, End, Underway, Changing, At, UserTypeOK
    <2>2. e # c /\ Underway(e)
      BY <2>1, <1>3 DEF Underway, Changing
    <2>. QED
      BY <2>1, <2>2, <1>2 DEF ChangesAlone
  <1>. QED
    BY <1>4, <1>5, <1>6, <1>7 DEF Ordinary

\* The first account is the administrator of a seed.
LEMMA SeedsKept ==
  ASSUME UserTypeOK, JobsMatchAccounts, OnlySeeds, NEW c \in Clients,
         UserRequest(c) \/ UserStep(c)
  PROVE  OnlySeeds'
  <1> SUFFICES ASSUME ~Serving', NEW d \in Clients, job'[d] # None
               PROVE  /\ ~Changing(d)'
                      /\ job'[d].read = [email |-> AdminEmail, flags |-> Flags]
    BY DEF OnlySeeds
  <1>1. Kept /\ Alone(c)
    BY StepFrame
  <1>2. ~Serving
    BY <1>1, NoneAssumption DEF Serving, Kept, Exists
  <1>3. CASE d # c
    BY <1>1, <1>2, <1>3 DEF Alone, OnlySeeds, Changing
  <1>4. CASE d = c /\ Seed(c)
    BY <1>4 DEF Seed, Begin, Changing, UserTypeOK
  <1>5. CASE d = c /\ FindFree(c)
    <2>1. /\ job'[c] = [job[c] EXCEPT !.at = "saving"] /\ job[c] \in Job
          /\ job[c].user = None
          /\ job[c].read = [email |-> AdminEmail, flags |-> Flags]
      BY <1>2, <1>5 DEF FindFree, At, Changing, UserTypeOK, OnlySeeds
    <2>2. job'[c].user = None /\ job'[c].read = job[c].read
      BY <2>1 DEF Job
    <2>. QED
      BY <1>5, <2>1, <2>2 DEF Changing
  <1>6. ~UserRequest(c)
    BY <1>2 DEF UserRequest, RegisterUser, CreateUser, PatchUser, Authorised, Serving
  <1>7. ~ReadAccount(c) /\ ~PassGuard(c)
    BY <1>2 DEF OnlySeeds, ReadAccount, PassGuard, At, JobsMatchAccounts, JobMatches
  <1>8. CASE End(c)
    BY <1>3, <1>8 DEF End, UserTypeOK
  <1>. QED
    BY <1>3, <1>4, <1>5, <1>6, <1>7, <1>8 DEF UserStep, FindTaken, SaveNew, SaveDuplicate,
       FindNoUser, ReadUnchanged, LastAdmin, SavePatched, Abort

LEMMA AdminKept ==
  ASSUME UserTypeOK, JobsMatchAccounts, OnlySeeds, ChangesAlone, ActiveAdminRemains,
         NEW c \in Clients, UserRequest(c) \/ UserStep(c)
  PROVE  ActiveAdminRemains'
  <1> SUFFICES ASSUME Serving', ~raced' PROVE ActiveAdmins' # {}
    BY DEF ActiveAdminRemains
  <1>1. ~raced
    BY DEF UserRequest, UserStep, RegisterUser, CreateUser, PatchUser, Begin, Seed,
       FindTaken, FindFree, SaveNew, SaveDuplicate, FindNoUser, ReadUnchanged, ReadAccount,
       LastAdmin, PassGuard, SavePatched, Abort
  <1>2. CASE account' = account
    BY <1>1, <1>2 DEF ActiveAdminRemains, Serving, ActiveAdmins, Exists
  <1>3. ASSUME NEW u \in Users, SaveNew(c, u) PROVE ActiveAdmins' # {}
    <2>1. CASE Serving
      <3>1. PICK v \in ActiveAdmins : TRUE
        BY <1>1, <2>1 DEF ActiveAdminRemains
      <3>. QED
        BY <1>3, <3>1 DEF SaveNew, ActiveAdmins, Exists, UserTypeOK
    <2>2. CASE ~Serving
      <3>1. job[c].read = [email |-> AdminEmail, flags |-> Flags]
        BY <1>3, <2>2 DEF SaveNew, At, OnlySeeds
      <3>2. account'[u] = [email |-> AdminEmail, flags |-> Flags]
        BY <1>3, <3>1 DEF SaveNew, UserTypeOK
      <3>3. account'[u] # None /\ {"active", "superuser"} \subseteq account'[u].flags
        BY <3>2, AdminAssumption, NoneAssumption DEF Account, Flags
      <3>. QED
        BY <3>3 DEF ActiveAdmins, Exists
    <2>. QED
      BY <2>1, <2>2
  <1>4. CASE SavePatched(c)
    <2>1. /\ Underway(c) /\ At(c, "saving") /\ job[c].user \in Users
          /\ job[c].patch \in Patch /\ Exists(job[c].user) /\ job[c].read \in Account
      BY <1>4 DEF SavePatched, Underway, At, Changing, UserTypeOK, Job, JobsMatchAccounts,
         JobMatches
    <2>2. job[c].read = account[job[c].user]
      BY <1>1, <2>1 DEF ChangesAlone
    <2>3. \A v \in ActiveAdmins : v # job[c].user => v \in ActiveAdmins'
      BY <1>4, <2>1 DEF SavePatched, ActiveAdmins, Exists, UserTypeOK
    <2>4. CASE Guarded(job[c].read, job[c].patch)
      BY <1>1, <2>1, <2>3, <2>4 DEF ChangesAlone
    <2>5. CASE ~Guarded(job[c].read, job[c].patch)
      <3>1. PICK v \in ActiveAdmins : TRUE
        BY <1>1, <2>1 DEF ActiveAdminRemains, Serving
      <3>2. CASE v = job[c].user
        <4>1. /\ {"active", "superuser"} \subseteq job[c].read.flags
              /\ job[c].patch.clear \intersect {"active", "superuser"} = {}
          BY <2>2, <2>5, <3>1, <3>2 DEF Guarded, ActiveAdmins
        <4>2. {"active", "superuser"} \subseteq Patched(job[c].read, job[c].patch).flags
          BY <2>1, <4>1 DEF Patched, Account
        <4>3. account'[v] = Patched(job[c].read, job[c].patch)
          BY <1>4, <2>1, <3>2 DEF SavePatched, UserTypeOK
        <4>4. account'[v] # None
          BY <2>1, <4>3, PatchedType, NoneAssumption
        <4>. QED
          BY <2>1, <3>2, <4>2, <4>3, <4>4 DEF ActiveAdmins, Exists
      <3>. QED
        BY <2>3, <3>1, <3>2
    <2>. QED
      BY <2>4, <2>5
  <1>. QED
    BY <1>2, <1>3, <1>4, AccountStep

\* Once seeded the service keeps an active administrator as long as changes of
\* accounts do not overlap: a change that takes one away has counted another, who
\* is still one when it is saved.
THEOREM AdminRemains == UserSpec => []ActiveAdminRemains
  <1> DEFINE Inv == OnlySeeds /\ ChangesAlone /\ ActiveAdminRemains
  <1>1. UserInit => Inv
    BY DEF UserInit, OnlySeeds, ChangesAlone, ActiveAdminRemains, Serving, Exists, Underway,
       Changing
  <1>2. UserTypeOK /\ JobsMatchAccounts /\ Inv /\ [UserNext]_userVars => Inv'
    <2>1. ASSUME UserTypeOK, JobsMatchAccounts, Inv, NEW c \in Clients,
                 UserRequest(c) \/ UserStep(c)
          PROVE  Inv'
      BY <2>1, SeedsKept, AloneKept, AdminKept
    <2>2. ASSUME Inv, UNCHANGED userVars PROVE Inv'
      BY <2>2 DEF userVars, OnlySeeds, ChangesAlone, ActiveAdminRemains, Serving, Exists,
         Underway, Changing, At, ActiveAdmins, Guarded
    <2>. QED
      BY <2>1, <2>2 DEF UserNext
  <1>3. Inv => ActiveAdminRemains
    OBVIOUS
  <1>. QED
    BY <1>1, <1>2, <1>3, AccountsTyped, PTL DEF UserSpec

\* A change alters what its request names and nothing else, as long as changes do
\* not overlap: the account that is saved whole was read as it still is.
THEOREM ChangedOnlyAsAsked == UserSpec => ChangedAsAsked
  <1> DEFINE Inv == OnlySeeds /\ ChangesAlone
             Asked == \A u \in Users : Exists(u) /\ account'[u] # account[u] /\ ~raced =>
               \E c \in Clients : /\ Changing(c) /\ job[c].user = u
                                  /\ account'[u] = [account[u] EXCEPT
                                       !.flags = (@ \union job[c].patch.set) \ job[c].patch.clear]
  <1>1. UserInit => Inv
    BY DEF UserInit, OnlySeeds, ChangesAlone, Serving, Exists, Underway, Changing
  <1>2. UserTypeOK /\ JobsMatchAccounts /\ Inv /\ [UserNext]_userVars => Inv'
    <2>1. ASSUME UserTypeOK, JobsMatchAccounts, Inv, NEW c \in Clients,
                 UserRequest(c) \/ UserStep(c)
          PROVE  Inv'
      BY <2>1, SeedsKept, AloneKept
    <2>2. ASSUME Inv, UNCHANGED userVars PROVE Inv'
      BY <2>2 DEF userVars, OnlySeeds, ChangesAlone, Serving, Exists,
         Underway, Changing, At, ActiveAdmins, Guarded
    <2>. QED
      BY <2>1, <2>2 DEF UserNext
  <1>3. UserTypeOK /\ JobsMatchAccounts /\ Inv /\ [UserNext]_userVars => Asked
    <2> SUFFICES ASSUME UserTypeOK, JobsMatchAccounts, Inv, [UserNext]_userVars,
                        NEW u \in Users, Exists(u), account'[u] # account[u], ~raced
                 PROVE  \E c \in Clients : /\ Changing(c) /\ job[c].user = u
                                           /\ account'[u] = Patched(account[u], job[c].patch)
      BY DEF Patched
    <2>1. PICK c \in Clients : UserRequest(c) \/ UserStep(c)
      BY DEF UserNext, userVars
    <2>2. SavePatched(c)
      BY <2>1, AccountStep DEF SaveNew, Exists, UserTypeOK
    <2>3. job[c].user = u /\ Underway(c) /\ account'[u] = Patched(job[c].read, job[c].patch)
      BY <2>2 DEF SavePatched, UserTypeOK, Underway, At, Changing
    <2>4. job[c].read = account[u]
      BY <2>3 DEF ChangesAlone
    <2>. QED
      BY <2>3, <2>4 DEF Underway
  <1>. QED
    BY <1>1, <1>2, <1>3, AccountsTyped, PTL DEF UserSpec, ChangedAsAsked
=============================================================================
