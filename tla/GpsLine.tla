------------------------------ MODULE GpsLine ------------------------------
(***************************************************************************)
(* lago_v1_5/src: a line of the GPS receiver as uart_rp.c collects it and  *)
(* nmea_rp.c reads it.  A sentence is sent as three chunks: the text up to *)
(* the '*', the '*' with the checksum, and the newline.  Of a line the     *)
(* model keeps what the parser can tell: the sentence its text begins      *)
(* with, whether the text up to the first '*' is just that sentence,       *)
(* intact, what the checksum after that '*' says, and the sentences whose  *)
(* names occur in it.  A text that is not the sender's is taken to have    *)
(* another checksum.                                                       *)
(***************************************************************************)
EXTENDS Integers, FiniteSets

Chunk(part, kind, sec) == [part |-> part, kind |-> kind, sec |-> sec, ok |-> TRUE]

\* what noise makes of a chunk: other text, or a checksum with another value
Damaged(c) ==
  LET text(k) == [c EXCEPT !.part = "text", !.kind = k, !.ok = FALSE]
  IN  CASE c.part = "text"     -> {text(c.kind), text("GSV")}
        [] c.part = "checksum" -> {text("GSV"), [c EXCEPT !.ok = FALSE]}
        [] c.part = "newline"  -> {text("GSV")}

NoLine == [lead |-> Chunk("newline", "GSV", 0), pure |-> FALSE, star |-> "none", names |-> {}, texts |-> 0]

\* *b++ = c in rp_UartReadln
Put(line, c) ==
  LET empty == line.texts = 0 /\ line.star = "none"
  IN  IF c.part = "text"
      THEN [lead  |-> IF line.texts = 0 THEN c ELSE line.lead,
            pure  |-> IF line.star = "none" THEN empty /\ c.ok ELSE line.pure,
            star  |-> line.star,
            names |-> line.names \cup ({c.kind} \ {"GSV"}),
            texts |-> line.texts + 1]
      ELSE [line EXCEPT !.star =
              CASE @ # "none" -> @
                [] empty      -> "first"
                [] OTHER      -> IF line.pure /\ c.ok /\ c.kind = line.lead.kind /\ c.sec = line.lead.sec
                                 THEN "right" ELSE "wrong"]

\* mutant: the sum begins with the '$'
MutValidChecksum(line) ==
  IF line.star \in {"none", "first"} THEN {"crash"} ELSE {"NMEA_CHECKSUM_ERR"}

\* the outcomes: without a '*' strchr() returns NULL, which is followed; a '*' that is
\* the first character is skipped, and the sum runs to the next one, wherever that is
rp_NmeaValidChecksum(line) ==
  CASE line.star = "none"  -> {"crash"}
    [] line.star = "first" -> {"crash", "NMEA_CHECKSUM_ERR"}
    [] line.star = "wrong" -> {"NMEA_CHECKSUM_ERR"}
    [] line.star = "right" -> {"_EMPTY"}

\* strstr() finds a name anywhere in the line, GGA before RMC
Named(line) ==
  CASE "GGA" \in line.names -> "NMEA_GPGGA"
    [] "GGA" \notin line.names /\ "RMC" \in line.names -> "NMEA_GPRMC"
    [] OTHER -> "NMEA_UNKNOWN"

\* mutant: the checksum is not looked at
MutGetMessageType(line) == {Named(line)}

rp_NmeaGetMessageType(line) ==
  {IF r = "_EMPTY" THEN Named(line) ELSE r : r \in rp_NmeaValidChecksum(line)}

\* the fields are taken from the text the line begins with, by their places: the second
\* of an intact sentence of the kind, anything otherwise
Unset == -2
Wrong == -1

Field(line, kind) == IF line.lead.ok /\ line.lead.kind = kind THEN line.lead.sec ELSE Wrong

rp_NmeaParseGpgga(line) == Field(line, "GGA")

rp_NmeaParseGprmc(line) == Field(line, "RMC")
=============================================================================
