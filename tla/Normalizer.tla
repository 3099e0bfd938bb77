----------------------------- MODULE Normalizer -----------------------------
(***************************************************************************)
(* The two algorithms of services/gateway-hub/src/normalizer.ts, as        *)
(* operators: cleanMessageContent and parseTimestamp.                      *)
(*                                                                         *)
(* A message is a sequence of the pieces its regular expressions tell      *)
(* apart: "word"; "base64", 20 or more letters of that alphabet; "json",   *)
(* the start of an encrypted payload; "url", which ends at the next blank; *)
(* "dollar", a url with $$ or $& in it; "space"; "smile", an emoticon of   *)
(* both tables; "legacy", a /-strong of the legacy table.  Cleaning makes  *)
(* "emoji" of a smile, "mangled" of a dollar and "notice" of a ciphertext. *)
(* A url with $` or $', into which the text around it is pasted, is left   *)
(* out.  The state is a message being typed or else a pair of clock        *)
(* readings, so that TLC visits every message up to a length and every     *)
(* time of day.                                                            *)
(***************************************************************************)
EXTENDS Integers, Sequences, FiniteSetsExt

CONSTANTS
    MaxPieces,  \* bound: pieces of a message
    Day,        \* minutes of a day
    MaxDays     \* bound: days of the clock

ASSUME NormalizerAssumption ==
    MaxPieces \in Nat /\ Day \in Nat \ {0} /\ MaxDays \in Nat \ {0}

VARIABLES
    text,   \* the message
    now,    \* Date.now(), in minutes since a midnight
    shown   \* the time of day that the page shows

normVars == <<text, now, shown>>

Words     == {"word", "base64", "json"}
Urls      == {"url", "dollar"}
Reactions == {"smile", "legacy"}
Pieces    == Words \cup Urls \cup Reactions \cup {"space"}
AllPieces == Pieces \cup {"emoji", "mangled", "notice"}

NormInit == text = <<>> /\ now = Day /\ shown = 0

\* A url runs to the next blank.
Type(p) ==
    /\ Len(text) < MaxPieces
    /\ now = Day /\ shown = 0
    /\ text # <<>> /\ text[Len(text)] \in Urls => p = "space"
    /\ text' = Append(text, p)
    /\ UNCHANGED <<now, shown>>

Look ==
    /\ text = <<>>
    /\ now' \in Day..(Day * MaxDays)
    /\ shown' \in 0..(Day - 1)
    /\ UNCHANGED text

NormNext == (\E p \in Pieces : Type(p)) \/ Look

NormSpec == NormInit /\ [][NormNext]_normVars

-----------------------------------------------------------------------------
(***************************************************************************)
(* cleanMessageContent.                                                    *)
(***************************************************************************)

\* s without the pieces of P at its end, and at its start.
TrimRight(s, P) == SubSeq(s, 1, Max({0} \cup {i \in DOMAIN s : s[i] \notin P}))

TrimLeft(s, P) ==
    SubSeq(s, Min({Len(s) + 1} \cup {i \in DOMAIN s : s[i] \notin P}), Len(s))

Trim(s) == TrimLeft(TrimRight(s, {"space"}), {"space"})

\* A text of nothing but base64, or one that opens an encrypted payload.
isBase64Ciphertext(s) ==
    LET t == Trim(s)
    IN  t # <<>> /\ (t[1] = "json" \/ \A i \in DOMAIN t : t[i] = "base64")

Notice == [cleanText |-> <<"notice">>, reactions |-> 0]

\* A bug: one burst of reactions is stripped, not every one.
StripOneBurst(s) == Trim(TrimRight(Trim(s), Reactions))

\* The loop strips burst after burst, with the blanks between them.
StripTrailing(s) == TrimRight(Trim(s), Reactions \cup {"space"})

\* The pieces of s that are in P, in their order: those of every prefix, and
\* those of the whole.
KeptUpTo(s, P) ==
    LET k[n \in 0..Len(s)] ==
            IF n = 0 THEN <<>>
            ELSE IF s[n] \in P THEN Append(k[n - 1], s[n]) ELSE k[n - 1]
    IN  k

Only(s, P) == KeptUpTo(s, P)[Len(s)]

\* Legacy codes are taken out wherever they are.
DropLegacy(s) == Trim(Only(s, AllPieces \ {"legacy"}))

\* A smile between blanks becomes an emoji.  The global match consumes both
\* blanks, so of two smiles with one blank between them the second stays.
Alone(s, i) ==
    /\ s[i] = "smile"
    /\ i = 1 \/ s[i - 1] = "space"
    /\ i = Len(s) \/ s[i + 1] = "space"

Matched(s) ==
    LET m[i \in DOMAIN s] == Alone(s, i) /\ (i > 2 => ~m[i - 2])
    IN  m

Inline(s) == [i \in DOMAIN s |-> IF Matched(s)[i] THEN "emoji" ELSE s[i]]

\* The urls come back in place of their placeholders, as the replacement
\* pattern of a String.replace, where $$ and $& do not stand for themselves.
RestoreUrls(s) == [i \in DOMAIN s |-> IF s[i] = "dollar" THEN "mangled" ELSE s[i]]

Count(s, P) == Cardinality({i \in DOMAIN s : s[i] \in P})

\* A bug: the codes inside the text are taken out and not counted.
CleanUncounted(s) ==
    LET kept == StripTrailing(s)
        rest == DropLegacy(kept)
    IN  IF isBase64Ciphertext(s) THEN Notice
        ELSE [cleanText |-> RestoreUrls(Inline(rest)),
              reactions |-> Count(s, Reactions) - Count(kept, Reactions)]

\* The urls are put aside first, so no step but the last changes them;
\* reactions holds the sum of the counts.
CleanMessageContent(s) ==
    LET kept == StripTrailing(s)
        rest == DropLegacy(kept)
    IN  IF isBase64Ciphertext(s) THEN Notice
        ELSE [cleanText |-> RestoreUrls(Inline(rest)),
              reactions |-> (Count(s, Reactions) - Count(kept, Reactions))
                              + Count(kept, {"legacy"})]

-----------------------------------------------------------------------------
(***************************************************************************)
(* parseTimestamp of a time of day, with or without "yesterday".           *)
(***************************************************************************)
Midnight(t) == t - (t % Day)

\* A bug: a time that is still to come today is left in the future.
ParseTimeToday(t, clock, yesterday) ==
    Midnight(clock) + t - (IF yesterday THEN Day ELSE 0)

\* The given time of today, one day back for "hôm qua" and one day back when
\* it is more than a minute ahead.
ParseTimestamp(t, clock, yesterday) ==
    LET d == Midnight(clock) + t - (IF yesterday THEN Day ELSE 0)
    IN  IF d > clock + 1 THEN d - Day ELSE d

-----------------------------------------------------------------------------
\* No piece of a message that is not taken for ciphertext is lost or counted
\* twice: words and plain urls stay, in their order; each url with a dollar is
\* there, though changed; every reaction is in the text or in the counts.
PiecesAccounted ==
    LET c == CleanMessageContent(text)
        plain == Words \cup {"url"}
    IN  ~isBase64Ciphertext(text) =>
            /\ Only(c.cleanText, plain) = Only(text, plain)
            /\ Count(c.cleanText, {"mangled"}) = Count(text, {"dollar"})
            /\ c.reactions + Count(c.cleanText, Reactions \cup {"emoji"})
                 = Count(text, Reactions)

\* The send path cleans a message before addMessage cleans it again: the second
\* cleaning finds no further reaction to take out of the text.
CleanedOnce ==
    CleanMessageContent(CleanMessageContent(text).cleanText).reactions = 0

\* A message scraped with a time of day gets that time within the last day, at
\* most the granted minute ahead of the clock, around midnight too; with
\* "yesterday" it gets that time of the day before today.
TimeIsLatest ==
    LET d == ParseTimestamp(shown, now, FALSE)
        y == ParseTimestamp(shown, now, TRUE)
    IN  /\ d % Day = shown /\ d <= now + 1 /\ d > now - Day
        /\ y % Day = shown /\ Midnight(y) = Midnight(now) - Day
=============================================================================
