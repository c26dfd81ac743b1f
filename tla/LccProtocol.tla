---------------------------- MODULE LccProtocol ----------------------------
(***************************************************************************)
(* The frame core 0 sends to the control board every 100 ms                *)
(* (Controller/Core0/Protocol/lcc_protocol.{h,cpp}).                       *)
(*                                                                         *)
(* A shift register is the set of its bits that are 1, so that the masks   *)
(* of the code are intersections; the header and the checksum are numbers. *)
(* The module has no state: it is the data type of SystemController.       *)
(***************************************************************************)
EXTENDS Integers

-----------------------------------------------------------------------------
(* The parsed packet: what the controller wants the actuators to do.       *)

LccParsedPackets ==
    [pump_on                     : BOOLEAN,
     water_line_solenoid_open    : BOOLEAN,
     service_boiler_ssr_on       : BOOLEAN,
     service_boiler_solenoid_open: BOOLEAN,
     brew_boiler_ssr_on          : BOOLEAN,
     minus_button_pressed        : BOOLEAN,
     plus_button_pressed         : BOOLEAN]

\* Default member initialisers: everything off.
LccParsedPacket ==
    [pump_on                      |-> FALSE,
     water_line_solenoid_open     |-> FALSE,
     service_boiler_ssr_on        |-> FALSE,
     service_boiler_solenoid_open |-> FALSE,
     brew_boiler_ssr_on           |-> FALSE,
     minus_button_pressed         |-> FALSE,
     plus_button_pressed          |-> FALSE]

-----------------------------------------------------------------------------
(* The raw packet: five bytes, three of them bit sets.                     *)

Bits == 0..7

ServiceBoilerRelay == 0     \* shift register 2
PumpRelay          == 4     \* shift register 2
BrewBoilerRelay    == 3     \* shift register 1
FA7Solenoid        == 4     \* shift register 1: water into the service boiler
FA8Solenoid        == 5     \* shift register 1: the water line
MinusButton        == 3     \* byte 3
PlusButton         == 2     \* byte 3

LccHeader == 128

LccRawPackets ==
    [header: 0..255, shiftRegister2: SUBSET Bits, shiftRegister1: SUBSET Bits,
     byte3: SUBSET Bits, checksum: 0..127]

\* The value of a byte, from the set of its bits.
Bit(b, byte) == IF b \in byte THEN 1 ELSE 0
ByteValue(byte) ==
    Bit(0, byte) + 2 * Bit(1, byte) + 4 * Bit(2, byte) + 8 * Bit(3, byte)
      + 16 * Bit(4, byte) + 32 * Bit(5, byte) + 64 * Bit(6, byte) + 128 * Bit(7, byte)

\* calculate_checksum over the three payload bytes: an 8-bit sum cut to 7 bits.
Checksum(sr2, sr1, b3) == ((ByteValue(sr2) + ByteValue(sr1) + ByteValue(b3)) % 256) % 128

\* The set {bit} if the flag is on, else the empty set.
Flag(on, bit) == IF on THEN {bit} ELSE {}

convert_lcc_parsed_to_raw(p) ==
    LET sr2 == Flag(p.pump_on, PumpRelay) \cup Flag(p.service_boiler_ssr_on, ServiceBoilerRelay)
        sr1 == Flag(p.water_line_solenoid_open, FA8Solenoid)
                 \cup Flag(p.service_boiler_solenoid_open, FA7Solenoid)
                 \cup Flag(p.brew_boiler_ssr_on, BrewBoilerRelay)
        b3  == Flag(p.minus_button_pressed, MinusButton) \cup Flag(p.plus_button_pressed, PlusButton)
    IN  [header |-> LccHeader, shiftRegister2 |-> sr2, shiftRegister1 |-> sr1,
         byte3 |-> b3, checksum |-> Checksum(sr2, sr1, b3)]

convert_lcc_raw_to_parsed(raw) ==
    [pump_on                      |-> PumpRelay \in raw.shiftRegister2,
     water_line_solenoid_open     |-> FA8Solenoid \in raw.shiftRegister1,
     service_boiler_ssr_on        |-> ServiceBoilerRelay \in raw.shiftRegister2,
     service_boiler_solenoid_open |-> FA7Solenoid \in raw.shiftRegister1,
     brew_boiler_ssr_on           |-> BrewBoilerRelay \in raw.shiftRegister1,
     minus_button_pressed         |-> MinusButton \in raw.byte3,
     plus_button_pressed          |-> PlusButton \in raw.byte3]

create_safe_packet ==
    [header |-> LccHeader, shiftRegister2 |-> {}, shiftRegister1 |-> {}, byte3 |-> {}, checksum |-> 0]

-----------------------------------------------------------------------------
(* Validation: the set of error flags; the empty set is "no error".        *)

UnexpectedBits2 == {1, 2, 3, 5, 6, 7}        \* 0xEE
UnexpectedBits1 == {0, 1, 2, 6, 7}           \* 0xC7
UnexpectedBits3 == {0, 1, 4, 5, 6, 7}        \* 0xF3

BothSsrsOn(raw) ==
    ServiceBoilerRelay \in raw.shiftRegister2 /\ BrewBoilerRelay \in raw.shiftRegister1

SolenoidOpenWithoutPump(raw) ==
    FA7Solenoid \in raw.shiftRegister1 /\ PumpRelay \notin raw.shiftRegister2

UnexpectedFlags(raw) ==
    \/ raw.shiftRegister2 \cap UnexpectedBits2 # {}
    \/ raw.shiftRegister1 \cap UnexpectedBits1 # {}
    \/ raw.byte3 \cap UnexpectedBits3 # {}

validate_lcc_raw_packet(raw) ==
    {e \in {"INVALID_HEADER", "INVALID_CHECKSUM", "UNEXPECTED_FLAGS",
            "BOTH_SSRS_ON", "SOLENOID_OPEN_WITHOUT_PUMP"} :
        \/ e = "INVALID_HEADER"             /\ raw.header # LccHeader
        \/ e = "INVALID_CHECKSUM"           /\ raw.checksum #
               Checksum(raw.shiftRegister2, raw.shiftRegister1, raw.byte3)
        \/ e = "UNEXPECTED_FLAGS"           /\ UnexpectedFlags(raw)
        \/ e = "BOTH_SSRS_ON"               /\ BothSsrsOn(raw)
        \/ e = "SOLENOID_OPEN_WITHOUT_PUMP" /\ SolenoidOpenWithoutPump(raw)}

=============================================================================
