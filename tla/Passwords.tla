------------------------------ MODULE Passwords ------------------------------
(***************************************************************************)
(* Selection of the vote account password (cmd/geth/passwords.go).         *)
(*                                                                         *)
(* fetchPassword asks usingVaultPassword whether the password comes from   *)
(* the command line or from Vault.  usingVaultPassword counts the password *)
(* flags that are set; exactly one selects the command line, none with all *)
(* Vault flags present selects Vault, anything else exits with Fatalf.     *)
(* fetchPasswordFromCLI returns the first set flag in a fixed order.       *)
(*                                                                         *)
(* The command-line context is fixed for a run and chosen in Init.  Only   *)
(* whether a flag is empty matters to the selection, so flag values are    *)
(* model values.  utils.Fatalf ends the process: pc = "exited".            *)
(***************************************************************************)
EXTENDS Naturals, FiniteSets

CONSTANTS
    Secrets   \* non-empty values a password flag can carry (not "")

(* The password flags in the order fetchPasswordFromCLI tries them         *)
(* (lines 26-34): VoteAccountPassword, VoteBlockMakerAccountPassword,      *)
(* PasswordFile.                                                           *)
PasswordFlags == 1..3

VaultFlags == {"VaultAddr", "VaultPrefix", "VaultPasswordName",
               "VaultPasswordPath"}

(* make([]string, 3): the slices of flag names start with three entries.   *)
PreallocatedLen == 3

Contexts == [pass : [PasswordFlags -> Secrets \cup {""}],
             vaultSet : SUBSET VaultFlags]

VARIABLES
    ctx,       \* the command-line context
    pc,        \* where the selection is
    password,  \* the password returned to the caller
    exitMsg    \* the Fatalf message the process exited with

vars == <<ctx, pc, password, exitMsg>>

SetPasswordFlags(c) == {i \in PasswordFlags : c.pass[i] # ""}

(* Lines 77-114: the decision of usingVaultPassword.  len(setPassFlags)   *)
(* and len(missingFlags) count the preallocated entries as well.           *)
UsingVaultPassword(c) ==
    LET setPass == PreallocatedLen + Cardinality(SetPasswordFlags(c))
        missing == PreallocatedLen + Cardinality(VaultFlags \ c.vaultSet)
        Return(v) == [fatal |-> FALSE, vault |-> v, msg |-> "none"]
        Fatal(m) == [fatal |-> TRUE, vault |-> FALSE, msg |-> m]
    IN  IF setPass > 0
           THEN IF setPass = 1 THEN Return(FALSE)
                               ELSE Fatal("TooManyPasswordFlags")
           ELSE IF missing > 0 THEN Fatal("MissingVaultFlags")
                               ELSE Return(TRUE)

(* Exit with the message of a failed usingVaultPassword.                   *)
ExitWith(u) == pc' = "exited" /\ exitMsg' = u.msg

(* Lines 17-23: fetchPassword.                                             *)
FetchPassword ==
    LET u == UsingVaultPassword(ctx) IN
    /\ pc = "fetchPassword"
    /\ IF u.fatal
          THEN ExitWith(u)
          ELSE /\ pc' = IF u.vault THEN "fetchFromVault" ELSE "fetchFromCLI"
               /\ UNCHANGED exitMsg
    /\ UNCHANGED <<ctx, password>>

(* Lines 25-40: the first set flag in order, or Fatalf.                    *)
FetchPasswordFromCLI ==
    /\ pc = "fetchFromCLI"
    /\ IF SetPasswordFlags(ctx) = {}
          THEN /\ pc' = "exited"
               /\ exitMsg' = "NoPasswordArguments"
               /\ UNCHANGED password
          ELSE LET i == CHOOSE j \in SetPasswordFlags(ctx) :
                            \A k \in SetPasswordFlags(ctx) : j <= k
               IN  /\ pc' = "returned"
                   /\ password' = ctx.pass[i]
                   /\ UNCHANGED exitMsg
    /\ UNCHANGED ctx

(* Lines 42-43, 71-74: fetchPasswordFromVault checks usingVaultPassword    *)
(* again; the Vault login and read that follow are not modelled.           *)
FetchPasswordFromVault ==
    LET u == UsingVaultPassword(ctx) IN
    /\ pc = "fetchFromVault"
    /\ IF u.fatal THEN ExitWith(u)
       ELSE IF u.vault THEN pc' = "vaultLogin" /\ UNCHANGED exitMsg
       ELSE pc' = "exited" /\ exitMsg' = "VaultWithCLIPassword"
    /\ UNCHANGED <<ctx, password>>

Init ==
    /\ ctx \in Contexts
    /\ pc = "fetchPassword"
    /\ password = ""
    /\ exitMsg = "none"

Next == FetchPassword \/ FetchPasswordFromCLI \/ FetchPasswordFromVault

Spec == Init /\ [][Next]_vars

TypeOK ==
    /\ ctx \in Contexts
    /\ pc \in {"fetchPassword", "fetchFromCLI", "fetchFromVault",
               "vaultLogin", "returned", "exited"}
    /\ password \in Secrets \cup {""}
    /\ exitMsg \in {"none", "TooManyPasswordFlags", "MissingVaultFlags",
                    "NoPasswordArguments", "VaultWithCLIPassword"}

(* The Fatalf message of line 93 says that exactly one password flag      *)
(* should be supplied: with exactly one set, fetchPassword does not exit   *)
(* and returns that flag's value.                                         *)
SinglePasswordFlagAccepted ==
    Cardinality(SetPasswordFlags(ctx)) = 1 =>
        /\ pc # "exited"
        /\ pc = "returned" =>
              password = ctx.pass[CHOOSE i \in SetPasswordFlags(ctx) : TRUE]

=============================================================================
