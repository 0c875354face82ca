------------------------------- MODULE SdCard --------------------------------
(***************************************************************************)
(* Bringing up the SD card: sdInit and sd_init of src/driver/sd.c, as a    *)
(* dialogue of commands with a card that may be old or new, of standard or *)
(* high capacity, slow to get ready, and whose answers may be lost, late   *)
(* or garbled.                                                             *)
(*                                                                         *)
(* Each command is one step: what the controller and the card do with it,  *)
(* how the driver waits for the answer and what it keeps of it.  A loop    *)
(* that polls a register ends with the flag or with a timeout.  The card   *)
(* (states, address, APP_CMD prefix) is the one the commands and comments  *)
(* of the driver presuppose.                                               *)
(***************************************************************************)
EXTENDS Integers, Sequences

CONSTANTS
    Kind,        \* cards that may be in the slot: "v1", "v2_sc", "v2_hc"
    HostVersion, \* versions of the host controller
    MaxFaults    \* bound: commands or answers lost, late or garbled

VARIABLES
    card,    \* the card: kind, widths, state, app (APP_CMD seen), rca, width
    host,    \* the controller: version, inhibit (a command hangs), width,
             \* cdiv (clock divider), intr (flags of EMMC_INTERRUPT)
    sdCard,  \* the driver's descriptor of the card
    stage,   \* the command or wait that comes next; at the end "ready", "late" or "failed"
    app,     \* APP_CMD was sent for the command of this stage
    arg,     \* argument of sdAppSendOpCond: "HC", "SC", or none chosen yet
    count,   \* retries left in sdAppSendOpCond
    faults

cardvars == <<card, host, sdCard, stage, app, arg, count, faults>>

FREQ_SETUP == 400000
FREQ_NORMAL == 25000000
BASE_CLOCK == 41666666
HOST_SPEC_V2 == 1
Retries == 6

CardInit ==
    /\ card \in [kind : Kind, widths : {{1}, {1, 4}}, state : {"idle"}, app : {FALSE},
                 rca : {0}, width : {1}]
    /\ host \in [version : HostVersion, inhibit : {FALSE}, width : {1}, cdiv : {0},
                 intr : {{}}]
    /\ sdCard = [type |-> "Unknown", rca |-> 0, ocr |-> {}, status |-> {}, support |-> {},
                 init |-> FALSE]
    /\ stage = "sdGetBaseClock" /\ app = FALSE /\ arg = "none" /\ count = 0 /\ faults = 0
-----------------------------------------------------------------------------
\* The commands of sdCommandTable the driver sends, with their kind of answer.
sdCommandTable ==
    [GO_IDLE_STATE |-> "NO", SEND_IF_COND |-> "R7", APP_CMD |-> "R1",
     APP_SEND_OP_COND |-> "R3", ALL_SEND_CID |-> "R2", SEND_REL_ADDR |-> "R6",
     SEND_CSD |-> "R2", CARD_SELECT |-> "R1", SEND_SCR |-> "R1",
     SET_BUS_WIDTH |-> "R1", SET_BLOCKLEN |-> "R1", READ_SINGLE |-> "R1"]

RcaCommand == {"APP_CMD", "SEND_CSD", "CARD_SELECT"}           \* rca == RCA_YES
AppCommand == {"APP_SEND_OP_COND", "SEND_SCR", "SET_BUS_WIDTH"} \* from IX_APP_CMD_START
DataCommand == {"SEND_SCR", "READ_SINGLE"}

only(b, x) == IF b THEN {x} ELSE {}

\* The card: what a command makes of it, {} when it does not answer.
Accepts(cmd) ==
    LET to(s) == [card EXCEPT !.state = s, !.app = FALSE]
        in(s) == /\ card.state = s
                 /\ cmd \in RcaCommand => sdCard.rca = card.rca
                 /\ cmd \in AppCommand => card.app
    IN  CASE cmd = "GO_IDLE_STATE" ->
               {[card EXCEPT !.state = "idle", !.app = FALSE, !.rca = 0, !.width = 1]}
          [] cmd = "SEND_IF_COND" -> only(in("idle") /\ card.kind # "v1", to("idle"))
          [] cmd = "APP_CMD" -> only(in(card.state), [card EXCEPT !.app = TRUE])
          [] cmd = "APP_SEND_OP_COND" ->
               only(in("idle"), to("idle"))
               \cup only(in("idle") /\ (card.kind = "v2_hc" => arg = "HC"), to("ready"))
          [] cmd = "ALL_SEND_CID" -> only(in("ready"), to("ident"))
          [] cmd = "SEND_REL_ADDR" -> only(in("ident"), [to("stby") EXCEPT !.rca = 1])
          [] cmd = "SEND_CSD" -> only(in("stby"), to("stby"))
          [] cmd = "CARD_SELECT" -> only(in("stby"), to("tran"))
          [] cmd = "SET_BUS_WIDTH" -> only(in("tran"), [to("tran") EXCEPT !.width = 4])
          [] OTHER -> only(in("tran"), to("tran"))

\* sdCard after the answer of card c to cmd.
Keep(cmd, c) ==
    LET r == sdCommandTable[cmd]
    IN  [sdCard EXCEPT
           !.status = IF r = "NO" THEN @
                      ELSE IF r \in {"R1", "R6"} /\ cmd \in AppCommand \cup {"APP_CMD"}
                      THEN {"APP_CMD"} ELSE {},
           !.ocr = IF r # "R3" THEN @
                   ELSE IF c.state # "ready" THEN {}
                   ELSE {"COMPLETE"} \cup (IF c.kind = "v2_hc" THEN {"CCS"} ELSE {}),
           !.rca = IF r = "R6" THEN c.rca ELSE @]

\* Mutant: flags left from an earlier command are not cleared.
cleared_Not == host.intr

\* EMMC_INTERRUPT once the flags that are set have been written back.
cleared == {}

Answer(r, c, sd, inhibit, intr, n) ==
    [result |-> r, card |-> c, sd |-> sd, faults |-> faults + n,
     host |-> [host EXCEPT !.inhibit = inhibit, !.intr = intr]]

\* A command that still hangs keeps the next one from being sent.
sdWaitForCommand == IF host.inhibit THEN {"OK", "BUSY"} ELSE {"OK"}

\* How the wait for an answer may fail, and whether the command hangs: the
\* command or the answer is lost, or comes too late, or is garbled.
sdWaitForInterrupt == {<<"TIMEOUT", FALSE>>, <<"TIMEOUT", TRUE>>, <<"ERROR", FALSE>>}

\* All that can come of sending cmd.  A command the card accepted is answered.
sdSendCommandP(cmd) ==
    LET C == Accepts(cmd)
        ready == IF cmd \in DataCommand THEN {"READ_RDY"} ELSE {}
    IN  {Answer("OK", c, Keep(cmd, c), FALSE, cleared \cup ready, 0) : c \in C}
        \cup only(C = {}, Answer("TIMEOUT", card, sdCard, FALSE, {}, 0))
        \cup only("BUSY" \in sdWaitForCommand, Answer("BUSY", card, sdCard, TRUE, host.intr, 0))
        \cup IF faults = MaxFaults THEN {}
             ELSE UNION {{Answer(b[1], c, sdCard, b[2], {}, 1) : c \in C \cup {card}} : b \in sdWaitForInterrupt}

\* Without an address nobody looks at the answer to APP_CMD.
app_refused(o) == sdCard.rca # 0 /\ (o.result # "OK" \/ "APP_CMD" \notin o.sd.status)

Happens(o) == card' = o.card /\ host' = o.host /\ faults' = o.faults

sdSendAppCommand ==
    /\ stage \in AppCommand /\ ~app
    /\ \E o \in sdSendCommandP("APP_CMD") :
         /\ Happens(o)
         /\ sdCard' = o.sd
         /\ IF app_refused(o) THEN stage' = "failed" /\ UNCHANGED app
                              ELSE app' = TRUE /\ UNCHANGED stage
    /\ UNCHANGED <<arg, count>>

\* sdSendCommand and sdSendCommandA, once APP_CMD was sent if it is needed.
sdSendCommand(cmd) ==
    {IF o.result = "OK" /\ cmd \in AppCommand /\ app_refused(o)
     THEN [o EXCEPT !.result = "ERROR_APP_CMD"] ELSE o : o \in sdSendCommandP(cmd)}

At(cmd) == stage = cmd /\ (cmd \in AppCommand => app) /\ app' = FALSE

\* The command of stage cmd, whose failure is the end; else stage next follows.
Command(cmd, next) ==
    /\ At(cmd)
    /\ \E o \in sdSendCommand(cmd) :
         /\ Happens(o)
         /\ sdCard' = o.sd
         /\ stage' = IF o.result = "OK" THEN next ELSE "failed"
    /\ UNCHANGED <<arg, count>>
-----------------------------------------------------------------------------
\* The position of the highest bit that is set.
fls_long(x) ==
    LET high(y, n) == IF y >= n THEN y \div n ELSE y
        found(y, n, r) == IF y >= n THEN r ELSE 0
        x8 == high(x, 65536)
        x4 == high(x8, 256)
        x2 == high(x4, 16)
        x1 == high(x2, 4)
    IN  IF x = 0 THEN 0
        ELSE 1 + found(x, 65536, 16) + found(x8, 256, 8) + found(x4, 16, 4) + found(x2, 4, 2) + found(x1, 2, 1)

one_shifted == <<1, 2, 4, 8, 16, 32, 64, 128>>

\* Mutant: the shift is one too small.
shiftcount_Off(closest) == LET s == fls_long(closest - 1) IN IF s > 1 THEN s - 2 ELSE 0

shiftcount(closest) ==
    LET s == fls_long(closest - 1)
    IN  IF s = 0 THEN 0 ELSE IF s > 8 THEN 7 ELSE s - 1

\* A power of two up to version 2, then ten bits of which the two high ones
\* are kept below the low ones.
sdGetClockDivider(freq) ==
    LET closest == BASE_CLOCK \div freq
        v3 == host.version > HOST_SPEC_V2
        d == IF v3 THEN closest ELSE one_shifted[shiftcount(closest) + 1]
        divisor == IF d <= 2 THEN 2 ELSE d
        hi == IF v3 THEN ((divisor \div 256) % 4) * 64 ELSE 0
    IN  (divisor % 256) * 256 + hi

\* sdSetClock: the inhibit flags do not go, or the clock gets stable or not.
sdSetClock(freq, h) ==
    LET set == [h EXCEPT !.cdiv = sdGetClockDivider(freq), !.inhibit = FALSE]
    IN  {[ok |-> FALSE, host |-> h], [ok |-> TRUE, host |-> set], [ok |-> FALSE, host |-> set]}

sdGetBaseClock ==
    /\ stage = "sdGetBaseClock"
    /\ stage' \in {"sdResetCard", "failed"}
    /\ UNCHANGED <<card, host, sdCard, app, arg, count, faults>>

\* sdResetCard up to the command GO_IDLE_STATE.
sdResetCard ==
    /\ stage = "sdResetCard"
    /\ \E o \in sdSetClock(FREQ_SETUP, [host EXCEPT !.inhibit = FALSE, !.width = 1, !.intr = {}]) :
         /\ host' = o.host
         /\ IF o.ok
            THEN /\ sdCard' = [sdCard EXCEPT !.rca = 0, !.ocr = {}, !.status = {}, !.type = "Unknown"]
                 /\ stage' = "GO_IDLE_STATE"
            ELSE UNCHANGED sdCard /\ stage' = "failed"
    /\ UNCHANGED <<card, app, arg, count, faults>>

GO_IDLE_STATE ==
    Command("GO_IDLE_STATE", IF arg = "none" THEN "SEND_IF_COND" ELSE "APP_SEND_OP_COND")

capacity_asked(r) == IF r = "OK" THEN "HC" ELSE "SC"

\* A card that does not answer is an old one; when its command hangs, the
\* card is reset first.
SEND_IF_COND ==
    /\ At("SEND_IF_COND")
    /\ \E o \in sdSendCommand("SEND_IF_COND") :
         /\ Happens(o)
         /\ sdCard' = o.sd
         /\ stage' = IF o.result = "BUSY" THEN "failed"
                     ELSE IF o.result # "OK" /\ o.host.inhibit THEN "sdResetCard"
                     ELSE "APP_SEND_OP_COND"
         /\ arg' = capacity_asked(o.result)
    /\ count' = Retries

\* Mutant: the retries are not counted.
retries_left_Uncounted == Retries

retries_left == count - 1

\* Mutant: every card that answered SEND_IF_COND is taken for high capacity.
card_type_NoCCS(ocr) == IF arg = "SC" THEN "SD_TYPE_1" ELSE "SD_TYPE_2_HC"

card_type(ocr) ==
    IF arg = "SC" THEN "SD_TYPE_1" ELSE IF "CCS" \in ocr THEN "SD_TYPE_2_HC" ELSE "SD_TYPE_2_SC"

\* sdAppSendOpCond: timeouts are retried like a card that is not ready yet.
APP_SEND_OP_COND ==
    /\ At("APP_SEND_OP_COND")
    /\ \E o \in sdSendCommand("APP_SEND_OP_COND") :
         /\ Happens(o)
         /\ IF o.result \in {"OK", "TIMEOUT"} /\ "COMPLETE" \in o.sd.ocr
            THEN /\ sdCard' = [o.sd EXCEPT !.type = card_type(o.sd.ocr)]
                 /\ stage' \in {"ALL_SEND_CID", "failed"}  \* the voltage may be none
                 /\ UNCHANGED count
            ELSE /\ sdCard' = o.sd
                 /\ IF o.result \in {"OK", "TIMEOUT"} /\ count > 0
                    THEN count' = retries_left /\ UNCHANGED stage
                    ELSE stage' = "failed" /\ UNCHANGED count
    /\ UNCHANGED arg

\* The file format of the card, in the CSD, may be one the driver does not know.
SEND_CSD == \E s \in {"sdSetClock", "failed"} : Command("SEND_CSD", s)

set_full_speed ==
    /\ stage = "sdSetClock"
    /\ \E o \in sdSetClock(FREQ_NORMAL, host) :
         host' = o.host /\ stage' = IF o.ok THEN "CARD_SELECT" ELSE "failed"
    /\ UNCHANGED <<card, sdCard, app, arg, count, faults>>

\* sdReadSCR after its command: the data comes, and raises a flag that
\* nobody waits for, or it does not come in time.
sdReadSCR ==
    /\ stage = "sdReadSCR"
    /\ \/ /\ sdCard' = [sdCard EXCEPT !.support = card.widths]
          /\ host' = [host EXCEPT !.intr = (@ \ {"READ_RDY"}) \cup {"DATA_DONE"}]
          /\ stage' = IF 4 \in card.widths THEN "SET_BUS_WIDTH" ELSE "SET_BLOCKLEN"
          /\ UNCHANGED faults
       \/ /\ faults < MaxFaults /\ faults' = faults + 1
          /\ stage' = "failed" /\ UNCHANGED <<sdCard, host>>
    /\ UNCHANGED <<card, app, arg, count>>

\* The controller is switched to four bits when the card was.
SET_BUS_WIDTH ==
    /\ At("SET_BUS_WIDTH")
    /\ \E o \in sdSendCommand("SET_BUS_WIDTH") :
         /\ card' = o.card /\ faults' = o.faults /\ sdCard' = o.sd
         /\ host' = IF o.result = "OK" THEN [o.host EXCEPT !.width = 4] ELSE o.host
         /\ stage' = IF o.result = "OK" THEN "SET_BLOCKLEN" ELSE "failed"
    /\ UNCHANGED <<arg, count>>

\* Initialisation complete; sd_init asserts it and reads the first block.
SET_BLOCKLEN ==
    /\ At("SET_BLOCKLEN")
    /\ \E o \in sdSendCommand("SET_BLOCKLEN") :
         /\ Happens(o)
         /\ sdCard' = [o.sd EXCEPT !.init = (o.result = "OK")]
         /\ stage' = IF o.result = "OK" THEN "READ_SINGLE" ELSE "failed"
    /\ UNCHANGED <<arg, count>>

\* sd_init looks at the result of neither of its two waits: when the data
\* comes late, its flags may be left in the register.  (The locals are gone.)
read_mbr ==
    /\ stage = "sd_init"
    /\ \/ /\ host' = [host EXCEPT !.intr = @ \ {"READ_RDY", "DATA_DONE"}]
          /\ stage' = "ready"
       \/ /\ faults < MaxFaults
          /\ \E I \in SUBSET {"READ_RDY", "DATA_DONE"} : host' = [host EXCEPT !.intr = I]
          /\ stage' = "late"
    /\ arg' = "none" /\ count' = 0 /\ faults' = 0
    /\ UNCHANGED <<card, sdCard, app>>

CardNext ==
    \/ sdGetBaseClock \/ sdResetCard \/ GO_IDLE_STATE \/ SEND_IF_COND
    \/ sdSendAppCommand \/ APP_SEND_OP_COND
    \/ Command("ALL_SEND_CID", "SEND_REL_ADDR") \/ Command("SEND_REL_ADDR", "SEND_CSD")
    \/ SEND_CSD \/ set_full_speed
    \/ Command("CARD_SELECT", "SEND_SCR") \/ Command("SEND_SCR", "sdReadSCR") \/ sdReadSCR
    \/ SET_BUS_WIDTH \/ SET_BLOCKLEN
    \/ Command("READ_SINGLE", "sd_init") \/ read_mbr
-----------------------------------------------------------------------------
\* Once sdInit reports success the driver and the card agree, whatever was
\* lost on the way: the card is selected and waits for transfers, the address
\* is its own, both use the same bus width, and sd_start counts in blocks
\* exactly when the card does.
DriverKnowsCard ==
    sdCard.init =>
        /\ card.state = "tran" /\ sdCard.rca = card.rca /\ host.width = card.width
        /\ sdCard.type = "SD_TYPE_2_HC" <=> card.kind = "v2_hc"

\* The assertion of sd_start that no interrupt flag is left holds when sd_init
\* calls it, and for the first request if the first block came in time.
StartFindsRegisterEmpty == stage \in {"READ_SINGLE", "ready"} => host.intr = {}

\* The divider as the controller reads it: half the clock over N.
N == host.cdiv \div 256 + ((host.cdiv % 256) \div 64) * 256

\* The bus is never faster than the card may be run: 400 kHz until the card
\* has an address, 25 MHz after.
ClockWithinLimit ==
    host.cdiv # 0 =>
        BASE_CLOCK \div (2 * N) <=
            IF card.state \in {"stby", "tran"} THEN FREQ_NORMAL ELSE FREQ_SETUP

\* However many answers are late, and however long the card needs, sdInit ends.
SdInitReturns == <>(stage \in {"ready", "late", "failed"})
=============================================================================
