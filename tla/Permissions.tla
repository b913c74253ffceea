---------------------------- MODULE Permissions ----------------------------
(***************************************************************************)
(* What the vault believes of an API key                                   *)
(* (exchange_vault/permission_validator.py): one validation, from the      *)
(* credentials given to a status.  The validator reads permission          *)
(* endpoints only; each exchange tells something else about a key.         *)
(***************************************************************************)
EXTENDS FiniteSets

CONSTANTS
    Venues,     \* exchanges asked for, supported or not
    Setups      \* settings: whether keys are inferred offline, and Binance's test network

Supported == {"binance", "okx", "bybit", "bitget"}
NeedPassphrase == {"okx", "bitget"}
Rights == {"read", "spot", "futures", "withdraw"}   \* what a key may do; spot and futures are trading

ConstantsOK == Setups \subseteq [offline : BOOLEAN, testnet : BOOLEAN]

VARIABLES
    setup, venue,
    rights,     \* what the key may really do
    given,      \* which of "key" and "passphrase" the user has given
    result      \* of the validation, or Pending

vars == <<setup, venue, rights, given, result>>

Statuses == {"CONNECTED", "INVALID", "PERMISSION_DENIED", "IP_RESTRICTED", "VALIDATION_UNAVAILABLE", "ERROR"}
Answers == {"yes", "no", "unknown"}

\* Results, ok being whether the exchange has answered the question.
Refused(status) == [ok |-> FALSE, status |-> status, withdraw |-> "unknown", warned |-> FALSE]
Pending == Refused("PENDING")

TypeOK ==
    /\ setup \in Setups /\ venue \in Venues /\ rights \subseteq Rights /\ given \subseteq {"key", "passphrase"}
    /\ result \in [ok : BOOLEAN, status : Statuses \cup {"PENDING"}, withdraw : Answers, warned : BOOLEAN]

Init ==
    /\ setup \in Setups /\ venue \in Venues
    /\ rights \in SUBSET Rights /\ given \in SUBSET {"key", "passphrase"}
    /\ result = Pending

Truth(answer) == IF answer THEN "yes" ELSE "no"

\* Mutant of Finalized: what is not known is taken for safe, without a warning.
FinalizedTrusting(trade, futures, withdraw) ==
    LET fit == withdraw # "yes" /\ trade /\ futures
    IN [ok |-> TRUE, status |-> IF fit THEN "CONNECTED" ELSE "PERMISSION_DENIED",
        withdraw |-> withdraw, warned |-> ~fit]

\* finalize_status: what can be withdrawn decides first; not knowing is warned of.
Finalized(trade, futures, withdraw) ==
    LET fit == withdraw # "yes" /\ trade /\ futures
    IN [ok |-> TRUE, status |-> IF fit THEN "CONNECTED" ELSE "PERMISSION_DENIED",
        withdraw |-> withdraw, warned |-> ~fit \/ withdraw = "unknown"]

Trading == {"spot", "futures"}

\* Binance lists the rights of the key, on its test network those of the account only
\* (which may trade futures; what it says of withdrawals is not trusted).
ClassifyBinance ==
    IF setup.testnet
    THEN {Finalized("futures" \in rights, TRUE, "unknown"),
          Refused("PERMISSION_DENIED")}     \* the account is not there
    ELSE {Finalized(rights \cap Trading # {}, "futures" \in rights, Truth("withdraw" \in rights))}

\* OKX may leave out the rights (then the key is taken to trade) and the account's level
\* (then who trades has futures); levels 2 to 4 have derivatives.
ClassifyOkx ==
    LET Trades(told) == told => rights \cap Trading # {}
        Withdraws(told) == IF told THEN Truth("withdraw" \in rights) ELSE "unknown"
        Futures(told, level) == IF level = "absent" THEN Trades(told) ELSE level = "derivatives"
    IN {Finalized(Trades(told), Futures(told, level), Withdraws(told))
        : told \in BOOLEAN, level \in {"absent", "spot", "derivatives"}}

\* Bybit lists the rights per wallet, with a flag for a key that only reads.
ClassifyBybit ==
    {Finalized(rights \cap Trading # {}, "futures" \in rights, Truth("withdraw" \in rights))}

\* Bitget tells nothing about the key: a readable account is taken for one that trades.
ClassifyBitget ==
    {IF "read" \in rights THEN Finalized(TRUE, TRUE, "unknown") ELSE Refused("PERMISSION_DENIED")}

Unreachable == Refused("VALIDATION_UNAVAILABLE")

\* The validators: an answer, an error, or none.  -2015 of Binance ("Invalid API-key, IP, or
\* permissions") names an IP whatever the reason; the others know some codes of bad
\* credentials and call the rest a denial.
ValidateBinance ==
    ClassifyBinance \cup {Refused("INVALID"), Refused("IP_RESTRICTED"), Refused("ERROR"), Unreachable}
ValidateOkx == ClassifyOkx \cup {Refused("INVALID"), Refused("PERMISSION_DENIED"), Unreachable}
ValidateBybit == ClassifyBybit \cup {Refused("INVALID"), Refused("PERMISSION_DENIED"), Unreachable}
ValidateBitget == ClassifyBitget \cup {Refused("INVALID"), Refused("PERMISSION_DENIED"), Unreachable}

\* MockExchangeValidator: the rights are read from the text of the key.
Inferred == {Refused("INVALID")} \cup {Finalized(t, f, w) : t, f \in BOOLEAN, w \in {"yes", "no"}}

\* validate_permissions.
Outcomes ==
    IF venue \notin Supported THEN {Unreachable}
    ELSE IF "key" \notin given \/ (venue \in NeedPassphrase /\ "passphrase" \notin given)
         THEN {Refused("INVALID")}
    ELSE IF setup.offline THEN Inferred
    ELSE CASE venue = "binance" -> ValidateBinance
           [] venue = "okx" -> ValidateOkx
           [] venue = "bybit" -> ValidateBybit
           [] venue = "bitget" -> ValidateBitget

Validate ==
    /\ result = Pending
    /\ result' \in Outcomes
    /\ UNCHANGED <<setup, venue, rights, given>>

\* test_connection of a stored key: the owner has changed its rights since.
Regrant(new) ==
    /\ result # Pending /\ rights' = new /\ result' = Pending
    /\ UNCHANGED <<setup, venue, given>>

Next == Validate \/ \E new \in SUBSET Rights : Regrant(new)

Spec == Init /\ [][Next]_vars

-----------------------------------------------------------------------------
\* "If withdrawal permission cannot be detected reliably the result carries
\* can_withdraw = None and a permission_warning (we do NOT silently treat unknown as
\* safe)": unless keys are inferred offline, a key that can withdraw is connected with
\* a warning only, on whichever exchange, and only after the exchange has answered.
NoSilentWithdrawal ==
    (result.status = "CONNECTED" /\ ~setup.offline) =>
        /\ result.ok
        /\ "withdraw" \in rights => result.warned /\ result.withdraw = "unknown"

\* Violated: "If validation cannot prove trading + futures permission, the account is
\* NOT marked CONNECTED."  A read-only key of Bitget is, and one of OKX without a list
\* of rights.
OnlyProvenKeys ==
    result.status = "CONNECTED" => "futures" \in rights
=============================================================================
