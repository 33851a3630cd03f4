------------------------------ MODULE AuthScheme ------------------------------
(***************************************************************************)
(* The PrivateToken scheme of HTTP's WWW-Authenticate and Authorization       *)
(* fields (src/http/auth_scheme.cpp).                                         *)
(*                                                                         *)
(* A text is a sequence of numbers: the base64 symbols, of which the first     *)
(* DIGITS are the decimal digits, then '=' (Pad) and the characters below.    *)
(* A word the parser compares with is one character; none of them is a symbol. *)
(***************************************************************************)
EXTENDS WireFormat

CONSTANTS
  DIGITS,           (* 10                                                    *)
  MaxAgeLimit       (* the largest 32-bit number                              *)

SP == SYMBOLS + 1               (* space, which stands for the tab too         *)
QUOTE == SYMBOLS + 2
BACKSLASH == SYMBOLS + 3
COMMA == SYMBOLS + 4
PRIVATE_TOKEN == SYMBOLS + 5    (* PrivateToken                               *)
CHALLENGE == SYMBOLS + 6        (* challenge                                  *)
TOKEN_KEY == SYMBOLS + 7        (* token-key                                  *)
MAX_AGE == SYMBOLS + 8          (* max-age                                    *)
TOKEN == SYMBOLS + 9            (* token                                      *)
FOREIGN == SYMBOLS + 10         (* any other word                             *)
Char == 0..FOREIGN

Scheme == <<PRIVATE_TOKEN, SP>>
IsOws(c) == c = SP

(* The text without the leading characters for which Skips holds.              *)
SkipWhile(text, Skips(_)) ==
  LET i == SelectInSeq(text, LAMBDA c : ~Skips(c)) IN IF i = 0 THEN <<>> ELSE From(text, i)

Skipped(text, Skips(_)) == SubSeq(text, 1, Len(text) - Len(SkipWhile(text, Skips)))
TrimEnd(text) == Reverse(SkipWhile(Reverse(text), IsOws))

-----------------------------------------------------------------------------
(* The loop over a quoted string, behind its opening quote: a backslash takes    *)
(* the next character as it is.                                               *)
quoted(text) ==
  LET turn(state, c) ==
        IF state.closed THEN [state EXCEPT !.rest = Append(@, c)]
        ELSE IF ~state.escaped /\ c = BACKSLASH THEN [state EXCEPT !.escaped = TRUE]
        ELSE IF ~state.escaped /\ c = QUOTE THEN [state EXCEPT !.closed = TRUE]
        ELSE [state EXCEPT !.escaped = FALSE, !.value = Append(@, c)]
  IN FoldLeft(turn, [closed |-> FALSE, escaped |-> FALSE, value |-> <<>>, rest |-> <<>>], text)

unquoted(text) ==
  LET InToken(c) == c \notin {COMMA, SP} IN
  [closed |-> TRUE, value |-> Skipped(text, InToken), rest |-> SkipWhile(text, InToken)]

value_at(text) == IF text[1] = QUOTE THEN quoted(Tail(text)) ELSE unquoted(text)

(* parse_auth_param: the next parameter of a text and what follows its comma;   *)
(* `found` is whether there is a well-formed one.                              *)
NoParam == [found |-> FALSE]
ValidKey(key) == key # <<>> /\ Range(key) \cap {SP, QUOTE, BACKSLASH, COMMA} = {}

BehindComma(text) == IF text # <<>> /\ text[1] = COMMA THEN Tail(text) ELSE text

param_with(key, value) ==
  IF ~value.closed THEN NoParam
  ELSE [found |-> TRUE, key |-> key, value |-> value.value,
        rest |-> SkipWhile(BehindComma(SkipWhile(value.rest, IsOws)), IsOws)]

param_of(key, text) ==
  IF ~ValidKey(key) \/ text = <<>> THEN NoParam ELSE param_with(key, value_at(text))

parse_auth_param(text) ==
  LET equals == SelectInSeq(text, LAMBDA c : c = Pad) IN
  IF equals = 0 THEN NoParam
  ELSE param_of(TrimEnd(SkipWhile(SubSeq(text, 1, equals - 1), IsOws)),
                SkipWhile(From(text, equals + 1), IsOws))

(* The loop of the two parsers: the parameters up to the end or to the first    *)
(* that is not well-formed, where the parsers stop without an error.           *)
with_param(state, param) ==
  IF ~param.found THEN [state EXCEPT !.rest = <<>>]
  ELSE [params |-> Append(state.params, param), rest |-> param.rest]

parameters(text) ==
  LET turn(state, i) ==
        IF state.rest = <<>> THEN state ELSE with_param(state, parse_auth_param(state.rest))
  IN FoldLeft(turn, [params |-> <<>>, rest |-> text], [i \in 1..Len(text) |-> i]).params

(* What a parameter is in the end: its last value, if there is one.            *)
LastValue(params, word) ==
  LET own == SelectSeq(params, LAMBDA p : p.key = <<word>>) IN
  IF own = <<>> THEN {} ELSE {Last(own).value}

-----------------------------------------------------------------------------
(* split_private_token_challenges: at commas outside of quotes before another    *)
(* PrivateToken.  The variant looks for commas inside of quotes as well.       *)
AnyComma(state, c) == c = COMMA

Separates(state, c) == c = COMMA /\ ~state.in_quote

split_private_token_challenges(text) ==
  LET turn(state, i) ==
        LET c == text[i]
            next == SkipWhile(From(text, i + 1), IsOws)
        IN
        IF state.escaped THEN [state EXCEPT !.escaped = FALSE]
        ELSE IF state.in_quote /\ c = BACKSLASH THEN [state EXCEPT !.escaped = TRUE]
        ELSE IF c = QUOTE THEN [state EXCEPT !.in_quote = ~@]
        ELSE IF Separates(state, c) /\ IsPrefix(Scheme, next)
        THEN [state EXCEPT !.pieces = Append(@, SubSeq(text, state.start, i - 1)),
                           !.start = Len(text) - Len(next) + 1]
        ELSE state
      end == FoldLeft(turn,
                      [in_quote |-> FALSE, escaped |-> FALSE, start |-> 1, pieces |-> <<>>],
                      [i \in 1..Len(text) |-> i])
  IN Append(end.pieces, From(text, end.start))

(* std::to_string and std::stoul, which takes the digits at the front and        *)
(* ignores what follows them.                                                 *)
to_string(n) ==
  LET width == CHOOSE w \in 1..(n + 1) : n < DIGITS^w /\ (w > 1 => n >= DIGITS^(w - 1))
  IN [i \in 1..width |-> (n \div DIGITS^(width - i)) % DIGITS]

Digits(text) == Skipped(SkipWhile(text, IsOws), LAMBDA c : c \in 0..(DIGITS - 1))
stoul(text) == FoldLeft(LAMBDA value, digit : value * DIGITS + digit, 0, Digits(text))
ValidAge(text) == Digits(text) # <<>> /\ stoul(text) <= MaxAgeLimit

(* ChallengeHeader::format; token_key and max_age are sets of at most one.       *)
Quoted(word, value) == <<word, Pad, QUOTE>> \o value \o <<QUOTE>>

format_challenge(header) ==
  Scheme \o Quoted(CHALLENGE, header.challenge)
    \o FlattenSeq(SetToSeq({<<COMMA, SP>> \o Quoted(TOKEN_KEY, k) : k \in header.token_key}))
    \o FlattenSeq(SetToSeq({<<COMMA, SP, MAX_AGE, Pad>> \o to_string(n) : n \in header.max_age}))

(* One challenge of ChallengeHeader::parse_all: an unusable max-age is ignored.  *)
header_of(params) ==
  LET usable == SelectSeq(params, LAMBDA p : p.key = <<MAX_AGE>> => ValidAge(p.value)) IN
  IF LastValue(params, CHALLENGE) \in {{}, {<<>>}} THEN Bad("MISSING_PARAMETER")
  ELSE Good([challenge |-> CHOOSE c \in LastValue(params, CHALLENGE) : TRUE,
             token_key |-> LastValue(params, TOKEN_KEY),
             max_age |-> {stoul(age) : age \in LastValue(usable, MAX_AGE)}])

parse_challenge(text) ==
  IF ~IsPrefix(Scheme, text) THEN Bad("INVALID_HEADER")
  ELSE header_of(parameters(From(text, Len(Scheme) + 1)))

parse_all(text) == CollectEach(split_private_token_challenges(text), parse_challenge)

(* ChallengeHeader::decode_challenge and decode_token_key.                      *)
decode_challenge(header) == Then(decode(header.challenge), deserialize_challenge)

decode_token_key(header) ==
  IF header.token_key = {} THEN Bad("MISSING_PARAMETER")
  ELSE decode(CHOOSE k \in header.token_key : TRUE)

build_www_authenticate(challenge, token_key, max_age) ==
  Then(serialize_challenge(challenge), LAMBDA serialized :
    Good(format_challenge([challenge |-> encode_padded(serialized),
                           token_key |-> {encode_padded(token_key)}, max_age |-> max_age])))

-----------------------------------------------------------------------------
(* AuthorizationHeader::format and parse, build_authorization and                *)
(* parse_authorization.                                                      *)
build_authorization(token) == Scheme \o Quoted(TOKEN, encode_padded(serialize_token(token)))

token_of(texts) ==
  IF texts \in {{}, {<<>>}} THEN Bad("MISSING_PARAMETER")
  ELSE Then(decode(CHOOSE t \in texts : TRUE), deserialize_token)

parse_authorization(text) ==
  IF ~IsPrefix(Scheme, text) THEN Bad("INVALID_HEADER")
  ELSE token_of(LastValue(parameters(From(text, Len(Scheme) + 1)), TOKEN))
=============================================================================
