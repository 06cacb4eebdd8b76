------------------------------ MODULE Challenge ------------------------------
(***************************************************************************)
(* RequestChallenge() and ChallengeResponse() (device_ctrust.c:2934-3550): *)
(* a controller asks for a challenge, which it has to answer before it     *)
(* expires, and gets the role of the challenge for the right answer.  Too  *)
(* many wrong answers to one challenge, by whomever, lock it for a while.  *)
(***************************************************************************)
EXTENDS Integers, FiniteSets

CONSTANTS
  Askers,           \* endpoints that may be in the controller table
  ChallengeSlots,   \* MAX_CONTROLLERS: controllers, and controller_challenges[]
  ChallengeRefs,    \* instances of the challenge table
  Expirations,      \* values of RequestExpiration; 0 is never
  Retries, Lockout, \* Retries and LockoutPeriod of every challenge
  MaxWrong,         \* bound on wrong answers between right ones
  EndOfTime,        \* bound on the time
  MaxChallengeIds   \* bound on the challenges handed out

ASSUME ChallengeAssumption ==
  /\ ChallengeSlots \in Nat \ {0} /\ Expirations \subseteq Nat /\ Retries \in Nat /\ Lockout \in Nat
  /\ MaxWrong \in Nat /\ EndOfTime \in Nat /\ MaxChallengeIds \in Nat
  /\ 0 \notin ChallengeRefs

VARIABLES
  now,        \* time(NULL)
  askers,     \* the controllers in the controller table
  refs,       \* the challenges in the challenge table, all of them enabled
  slot,       \* controller_challenges[]
  guesses,    \* challenge_table[]: [retries, locked]
  given,      \* the number of challenge ids generated
  wrong,      \* the wrong answers since the last right one: their number, the last one's time
  granted,    \* the last step gave a controller the role of this challenge (0: none)
  nullSlot    \* USP_ASSERT(cc != NULL) has failed

chVars == <<now, askers, refs, slot, guesses, given, wrong, granted, nullSlot>>

SlotNos == 1..ChallengeSlots
FreeSlot == [who |-> "none", id |-> 0, ref |-> 0, expiration |-> 0, expires |-> 0]

\* The first entry of the controller, used or expired.
FindControllerChallengeByEndpointId(e) ==
  {i \in SlotNos : slot[i].who = e /\ \A j \in 1..(i - 1) : slot[j].who # e}

NoneWrong == [n |-> 0, last |-> 0]

FirstFree == {i \in SlotNos : slot[i].id = 0 /\ \A j \in 1..(i - 1) : slot[j].id # 0}

\* Has expired for a request; a response compares with >= (line 3430).
ExpiredForRequest(c) == c.expiration > 0 /\ c.expires < now
ExpiredForResponse(c) == c.expiration > 0 /\ now >= c.expires

\* FindAvailableControllerChallenge: an entry, none, or a refusal.
FindAvailableControllerChallenge(e, r) ==
  LET own == FindControllerChallengeByEndpointId(e)
  IN IF own = {} THEN FirstFree
     ELSE {i \in own : ExpiredForRequest(slot[i]) \/ slot[i].ref = r}
RefusedChallenge(e, r) ==
  FindControllerChallengeByEndpointId(e) # {} /\ FindAvailableControllerChallenge(e, r) = {}

\* ControllerTrustRequestChallenge: a challenge that is asked for again keeps
\* its id and gets another expiry.
RequestChallenge(e, r, x) ==
  LET fit == FindAvailableControllerChallenge(e, r)
  IN /\ ~nullSlot /\ e \in askers /\ r \in refs /\ ~RefusedChallenge(e, r) /\ granted' = 0
     /\ nullSlot' = (fit = {})
     /\ \A i \in fit :
          LET kept == slot[i].who = e /\ ~ExpiredForRequest(slot[i])
          IN /\ ~kept => given < MaxChallengeIds
             /\ given' = IF kept THEN given ELSE given + 1
             /\ slot' = [slot EXCEPT ![i] =
                  [who |-> e, id |-> IF kept THEN @.id ELSE given + 1, ref |-> r,
                   expiration |-> x, expires |-> now + x]]
     /\ fit = {} => UNCHANGED <<given, slot>>
     /\ UNCHANGED <<now, askers, refs, guesses, wrong>>

Locked(r) == Lockout > 0 /\ guesses[r].locked > now

\* Seeded error: the challenge is locked after one wrong answer too many.
LockTooLate(r) ==
  LET n == guesses[r].retries + 1
  IN [retries |-> n, locked |-> IF n > Retries /\ Lockout > 0 THEN now + Lockout ELSE guesses[r].locked]

WrongAnswer(r) ==
  LET n == guesses[r].retries + 1
  IN [retries |-> n, locked |-> IF n >= Retries /\ Lockout > 0 THEN now + Lockout ELSE guesses[r].locked]

\* ControllerTrustChallengeResponse, for the id the controller was given, up
\* to the comparison of the value.
Answerable(i, e) == i \in FindControllerChallengeByEndpointId(e) /\ ~ExpiredForResponse(slot[i])

\* The challenge has been deleted: the controller's entry is freed.
ResponseWithoutChallenge(e) ==
  /\ e \in askers /\ granted' = 0
  /\ \E i \in SlotNos : /\ Answerable(i, e) /\ slot[i].ref \notin refs
                        /\ slot' = [slot EXCEPT ![i] = FreeSlot]
  /\ UNCHANGED <<now, askers, refs, guesses, given, wrong, nullSlot>>

WrongResponse(e) ==
  /\ e \in askers /\ granted' = 0
  /\ \E i \in SlotNos :
       LET r == slot[i].ref
       IN /\ Answerable(i, e) /\ r \in refs /\ ~Locked(r) /\ guesses[r].retries < MaxWrong
          /\ guesses' = [guesses EXCEPT ![r] = WrongAnswer(r)]
          /\ wrong' = [wrong EXCEPT ![r] = [n |-> @.n + 1, last |-> now]]
  /\ UNCHANGED <<now, askers, refs, slot, given, nullSlot>>

RightResponse(e) ==
  /\ e \in askers
  /\ \E i \in SlotNos :
       LET r == slot[i].ref
       IN /\ Answerable(i, e) /\ r \in refs /\ ~Locked(r) /\ granted' = r
          /\ guesses' = [guesses EXCEPT ![r] = [retries |-> 0, locked |-> 0]]
          /\ wrong' = [wrong EXCEPT ![r] = NoneWrong]
          /\ slot' = [slot EXCEPT ![i] = FreeSlot]
  /\ UNCHANGED <<now, askers, refs, given, nullSlot>>

-----------------------------------------------------------------------------
(* The tables change: neither controller_challenges[] nor challenge_table[] *)
(* hears of it.                                                            *)

AddAsker(e) == /\ e \notin askers /\ Cardinality(askers) < ChallengeSlots
               /\ askers' = askers \cup {e} /\ granted' = 0
               /\ UNCHANGED <<now, refs, slot, guesses, given, wrong, nullSlot>>
DeleteAsker(e) == /\ e \in askers /\ askers' = askers \ {e} /\ granted' = 0
                  /\ UNCHANGED <<now, refs, slot, guesses, given, wrong, nullSlot>>
DeleteChallenge(r) == /\ r \in refs /\ refs' = refs \ {r} /\ granted' = 0
                      /\ UNCHANGED <<now, askers, slot, guesses, given, wrong, nullSlot>>
Tick == /\ now < EndOfTime /\ now' = now + 1 /\ granted' = 0
        /\ UNCHANGED <<askers, refs, slot, guesses, given, wrong, nullSlot>>

\* InitChallengeTable
ChInit ==
  /\ now = 1 /\ refs = ChallengeRefs /\ given = 0 /\ granted = 0 /\ nullSlot = FALSE
  /\ askers \in {a \in SUBSET Askers : Cardinality(a) = ChallengeSlots}
  /\ slot = [i \in SlotNos |-> FreeSlot]
  /\ guesses = [r \in ChallengeRefs |-> [retries |-> 0, locked |-> 0]]
  /\ wrong = [r \in ChallengeRefs |-> NoneWrong]

ChNext ==
  \/ Tick
  \/ \E e \in Askers : \/ AddAsker(e) \/ DeleteAsker(e)
                       \/ ResponseWithoutChallenge(e) \/ WrongResponse(e) \/ RightResponse(e)
                       \/ \E r \in ChallengeRefs, x \in Expirations : RequestChallenge(e, r, x)
  \/ \E r \in ChallengeRefs : DeleteChallenge(r)

ChSpec == ChInit /\ [][ChNext]_chVars

-----------------------------------------------------------------------------
(* Properties.                                                             *)

\* The entries and counters hold what their C types allow.
ChTypeOK ==
  /\ now \in Nat /\ askers \subseteq Askers /\ refs \subseteq ChallengeRefs
  /\ given \in 0..MaxChallengeIds /\ granted \in ChallengeRefs \cup {0} /\ nullSlot \in BOOLEAN
  /\ slot \in [SlotNos -> [who : Askers \cup {"none"}, id : 0..MaxChallengeIds, ref : ChallengeRefs \cup {0},
                           expiration : Expirations \cup {0}, expires : Nat]]
  /\ guesses \in [ChallengeRefs -> [retries : Nat, locked : Nat]]
  /\ wrong \in [ChallengeRefs -> [n : Nat, last : Nat]]

\* The counters of challenge_table[] tell how many wrong answers there were since the last right one, and
\* once there were enough the lock tells when the last of them came.
WrongsCounted ==
  \A r \in ChallengeRefs :
    /\ guesses[r].retries = wrong[r].n
    /\ wrong[r].n >= Retries /\ Retries > 0 /\ Lockout > 0 => guesses[r].locked = wrong[r].last + Lockout

\* The inductive invariant behind LockoutHolds.
ChallengeInv == ChTypeOK /\ WrongsCounted

\* Whoever gave the wrong answers, and whatever requests and controllers came
\* and went in between, no controller gets the role of a challenge within
\* LockoutPeriod of the wrong answer that made Retries of them since the
\* last right one (device_ctrust.c:3477, :3493-3501, :3543).
LockoutHolds ==
  [][\A r \in ChallengeRefs :
       (granted' = r /\ wrong[r].n >= Retries /\ Retries > 0 /\ Lockout > 0)
         => now >= wrong[r].last + Lockout]_chVars

\* device_ctrust.c:3060 "null should never be returned since the amount of
\* available controller challenges is equals to the maximum amount of
\* controllers", and USP_ASSERT(cc != NULL) at 3212.
SlotFound == ~nullSlot
=============================================================================
