---------------------------- MODULE PasswordsProofs ----------------------------
(***************************************************************************)
(* For every set of secrets: because setPassFlags is made with three       *)
(* entries (passwords.go:83), len(setPassFlags) is at least 3 in every     *)
(* command-line context, so usingVaultPassword always takes the Fatalf     *)
(* branch of line 93 and the selection never leaves its first step.        *)
(***************************************************************************)
EXTENDS Passwords, FiniteSetTheorems, TLAPS

(* fetchPassword either has not decided yet or has exited with "Too many   *)
(* password flags": neither the command-line nor the Vault path is ever   *)
(* reached, whatever flags are set.                                        *)
AlwaysTooManyFlags ==
    /\ ctx \in Contexts
    /\ pc \in {"fetchPassword", "exited"}
    /\ pc = "exited" => exitMsg = "TooManyPasswordFlags"

(* The number of set password flags is a natural number.                   *)
LEMMA SetFlagsCounted ==
    ASSUME NEW c \in Contexts
    PROVE  Cardinality(SetPasswordFlags(c)) \in Nat
<1>1. IsFiniteSet(PasswordFlags)
  <2>1. 1 \in Int /\ 3 \in Int
    OBVIOUS
  <2>2. IsFiniteSet(1..3)
    BY <2>1, FS_Interval, Zenon
  <2>3. QED
    BY <2>2 DEF PasswordFlags
<1>2. SetPasswordFlags(c) \in SUBSET PasswordFlags
  BY DEF SetPasswordFlags
<1>3. IsFiniteSet(SetPasswordFlags(c))
  BY <1>1, <1>2, FS_Subset
<1>4. QED
  BY <1>3, FS_CardinalityType

(* usingVaultPassword fails with "Too many password flags" in every        *)
(* context.                                                                *)
LEMMA DecisionAlwaysFatal ==
    ASSUME NEW c \in Contexts
    PROVE  UsingVaultPassword(c) =
               [fatal |-> TRUE, vault |-> FALSE, msg |-> "TooManyPasswordFlags"]
<1> DEFINE setPass == PreallocatedLen + Cardinality(SetPasswordFlags(c))
<1>1. setPass > 0 /\ setPass # 1
  BY SetFlagsCounted DEF PreallocatedLen
<1>2. QED
  BY <1>1 DEF UsingVaultPassword

LEMMA TooManyInit == Init => AlwaysTooManyFlags
BY DEF Init, AlwaysTooManyFlags

LEMMA TooManyStep == AlwaysTooManyFlags /\ [Next]_vars => AlwaysTooManyFlags'
<1> SUFFICES ASSUME AlwaysTooManyFlags, [Next]_vars
             PROVE  AlwaysTooManyFlags'
  OBVIOUS
<1>1. CASE FetchPassword
  <2>1. UsingVaultPassword(ctx) =
            [fatal |-> TRUE, vault |-> FALSE, msg |-> "TooManyPasswordFlags"]
    BY DecisionAlwaysFatal DEF AlwaysTooManyFlags
  <2>2. pc' = "exited" /\ exitMsg' = "TooManyPasswordFlags" /\ ctx' = ctx
    BY <1>1, <2>1 DEF FetchPassword, ExitWith
  <2>3. QED
    BY <2>2 DEF AlwaysTooManyFlags
<1>2. CASE FetchPasswordFromCLI
  BY <1>2 DEF FetchPasswordFromCLI, AlwaysTooManyFlags
<1>3. CASE FetchPasswordFromVault
  BY <1>3 DEF FetchPasswordFromVault, AlwaysTooManyFlags
<1>4. CASE UNCHANGED vars
  BY <1>4 DEF vars, AlwaysTooManyFlags
<1>5. QED
  BY <1>1, <1>2, <1>3, <1>4 DEF Next

(* For every set of secrets and every command line, fetchPassword never    *)
(* returns a password nor reaches Vault: it can only exit with "Too many  *)
(* password flags" (the make([]string, 3) of passwords.go:83).            *)
THEOREM AlwaysFatal == Spec => []AlwaysTooManyFlags
BY TooManyInit, TooManyStep, PTL DEF Spec

=============================================================================
