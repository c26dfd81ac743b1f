-------------------------- MODULE LccProtocolProofs --------------------------
(***************************************************************************)
(* Facts about the frame conversions, for every packet.                    *)
(***************************************************************************)
EXTENDS LccProtocol, TLAPS

\* A byte is less than 256, whatever its bits.
LEMMA ByteValueType ==
    ASSUME NEW byte
    PROVE  ByteValue(byte) \in 0..255
BY DEF ByteValue, Bit

\* A checksum has seven bits.
LEMMA ChecksumType ==
    ASSUME NEW sr2, NEW sr1, NEW b3
    PROVE  Checksum(sr2, sr1, b3) \in 0..127
<1>1. \A x, y, z \in Int : ((x + y + z) % 256) % 128 \in 0..127
  OBVIOUS
<1>2. \A byte : ByteValue(byte) \in Int
  BY ByteValueType
<1> QED
  BY <1>1, <1>2 DEF Checksum

\* The safe packet is a raw packet, passes the validation and means "all off".
LEMMA SafePacket ==
    /\ create_safe_packet \in LccRawPackets
    /\ validate_lcc_raw_packet(create_safe_packet) = {}
    /\ convert_lcc_raw_to_parsed(create_safe_packet) = LccParsedPacket
<1>1. create_safe_packet \in LccRawPackets
  BY DEF create_safe_packet, LccRawPackets, LccHeader
<1>2. ByteValue({}) = 0
  BY DEF ByteValue, Bit
<1>3. Checksum({}, {}, {}) = 0
  BY <1>2 DEF Checksum
<1>4. validate_lcc_raw_packet(create_safe_packet) = {}
  BY <1>3 DEF validate_lcc_raw_packet, create_safe_packet, UnexpectedFlags, BothSsrsOn,
     SolenoidOpenWithoutPump
<1>5. convert_lcc_raw_to_parsed(create_safe_packet) = LccParsedPacket
  <2>1. \A bit : (bit \in {}) = FALSE
    OBVIOUS
  <2> QED
    BY <2>1, Zenon DEF convert_lcc_raw_to_parsed, create_safe_packet, LccParsedPacket
<1> QED
  BY <1>1, <1>4, <1>5

\* What is sent can be read back: the raw packet keeps every field.
THEOREM RoundTrip ==
    ASSUME NEW p \in LccParsedPackets
    PROVE  convert_lcc_raw_to_parsed(convert_lcc_parsed_to_raw(p)) = p
BY DEF LccParsedPackets, convert_lcc_raw_to_parsed, convert_lcc_parsed_to_raw, Flag,
   ServiceBoilerRelay, PumpRelay, BrewBoilerRelay, FA7Solenoid, FA8Solenoid,
   MinusButton, PlusButton

\* The encoder writes raw packets.
LEMMA ConvertType ==
    ASSUME NEW p \in LccParsedPackets
    PROVE  convert_lcc_parsed_to_raw(p) \in LccRawPackets
<1> DEFINE raw == convert_lcc_parsed_to_raw(p)
<1>1. /\ raw.shiftRegister2 \in SUBSET Bits
      /\ raw.shiftRegister1 \in SUBSET Bits
      /\ raw.byte3 \in SUBSET Bits
  BY DEF convert_lcc_parsed_to_raw, Flag, Bits, ServiceBoilerRelay, PumpRelay,
     BrewBoilerRelay, FA7Solenoid, FA8Solenoid, MinusButton, PlusButton
<1>2. raw.checksum \in 0..127
  BY ChecksumType DEF convert_lcc_parsed_to_raw
<1>3. raw.header \in 0..255
  BY DEF convert_lcc_parsed_to_raw, LccHeader
<1> QED
  BY <1>1, <1>2, <1>3 DEF LccRawPackets, convert_lcc_parsed_to_raw

\* The validation accepts exactly the packets that keep the two boilers apart
\* and never open the service boiler's inlet without the pump.
THEOREM ValidFrames ==
    ASSUME NEW p \in LccParsedPackets
    PROVE  validate_lcc_raw_packet(convert_lcc_parsed_to_raw(p)) = {}
             <=> /\ ~(p.brew_boiler_ssr_on /\ p.service_boiler_ssr_on)
                 /\ p.service_boiler_solenoid_open => p.pump_on
<1> DEFINE raw == convert_lcc_parsed_to_raw(p)
<1>1. raw.header = LccHeader
  BY DEF convert_lcc_parsed_to_raw
<1>2. raw.checksum = Checksum(raw.shiftRegister2, raw.shiftRegister1, raw.byte3)
  BY DEF convert_lcc_parsed_to_raw
<1>3. ~UnexpectedFlags(raw)
  BY DEF convert_lcc_parsed_to_raw, UnexpectedFlags, Flag, ServiceBoilerRelay, PumpRelay,
     BrewBoilerRelay, FA7Solenoid, FA8Solenoid, MinusButton, PlusButton,
     UnexpectedBits1, UnexpectedBits2, UnexpectedBits3
<1>4. BothSsrsOn(raw) <=> p.brew_boiler_ssr_on /\ p.service_boiler_ssr_on
  BY DEF LccParsedPackets, convert_lcc_parsed_to_raw, BothSsrsOn, Flag, ServiceBoilerRelay,
     PumpRelay, BrewBoilerRelay, FA7Solenoid, FA8Solenoid
<1>5. SolenoidOpenWithoutPump(raw) <=> p.service_boiler_solenoid_open /\ ~p.pump_on
  BY DEF LccParsedPackets, convert_lcc_parsed_to_raw, SolenoidOpenWithoutPump, Flag,
     ServiceBoilerRelay, PumpRelay, BrewBoilerRelay, FA7Solenoid, FA8Solenoid
<1>6. validate_lcc_raw_packet(raw) = {} <=> ~BothSsrsOn(raw) /\ ~SolenoidOpenWithoutPump(raw)
  <2> HIDE DEF raw
  <2> QED
    BY <1>1, <1>2, <1>3 DEF validate_lcc_raw_packet
<1> QED
  BY <1>4, <1>5, <1>6

=============================================================================
