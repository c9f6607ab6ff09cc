----------------------------- MODULE DeviceList -----------------------------
(***************************************************************************)
(* The "your devices" page: ParseUserAgent, and ListNamed, which asks the  *)
(* host's geolocator about the addresses of a user's sessions while it     *)
(* walks the list.                                                         *)
(*                                                                         *)
(* A User-Agent is the set of signatures that occur in it, lower-cased.    *)
(***************************************************************************)
EXTENDS Integers, Sequences

CONSTANTS Listings,  \* lists of sessions [id, ip, ua]; ip "" is unknown
          Places     \* what Locate may answer, apart from nowhere

ASSUME ListingsAssumption ==
  Listings \subseteq Seq([id : Int, ip : STRING, ua : SUBSET STRING])

VARIABLES listed,  \* the sessions that List returned
          next,    \* index of the session the loop is at
          located, \* the loop's cache, a function from addresses to places
          lookups, \* history: the addresses asked for, in order
          named    \* the list being built

deviceVars == <<listed, next, located, lookups, named>>

-----------------------------------------------------------------------------
(* security.ParseUserAgent *)

BotSignatures ==
  << <<"googlebot", "Googlebot">>, <<"bingbot", "Bingbot">>,
     <<"slurp", "Yahoo! Slurp">>, <<"duckduckbot", "DuckDuckBot">>,
     <<"baiduspider", "Baiduspider">>, <<"yandexbot", "YandexBot">>,
     <<"applebot", "Applebot">>, <<"petalbot", "PetalBot">>,
     <<"ahrefsbot", "AhrefsBot">>, <<"semrushbot", "SemrushBot">>,
     <<"facebookexternalhit", "facebookexternalhit">>,
     <<"twitterbot", "Twitterbot">>, <<"slackbot", "Slackbot">>,
     <<"discordbot", "Discordbot">>, <<"telegrambot", "TelegramBot">>,
     <<"headlesschrome", "HeadlessChrome">>, <<"curl/", "curl">>,
     <<"wget/", "Wget">>, <<"httpie", "HTTPie">>,
     <<"postmanruntime", "Postman">>, <<"insomnia", "Insomnia">>,
     <<"python-requests", "python-requests">>,
     <<"python-urllib", "python-urllib">>,
     <<"go-http-client", "Go-http-client">>, <<"okhttp", "OkHttp">>,
     <<"axios/", "axios">>, <<"node-fetch", "node-fetch">>,
     <<"libwww-perl", "libwww-perl">>, <<"java/", "Java">> >>

\* The specific ones first: Edge says "chrome/", and Chrome says "safari/".
BrowserSignatures ==
  << <<"edg/", "Edge">>, <<"edga/", "Edge">>, <<"edgios/", "Edge">>,
     <<"edge/", "Edge">>, <<"opr/", "Opera">>, <<"opios/", "Opera">>,
     <<"opera", "Opera">>, <<"samsungbrowser/", "Samsung Internet">>,
     <<"yabrowser/", "Yandex Browser">>, <<"ucbrowser/", "UC Browser">>,
     <<"vivaldi", "Vivaldi">>, <<"brave/", "Brave">>,
     <<"duckduckgo/", "DuckDuckGo">>, <<"crios/", "Chrome">>,
     <<"chromium/", "Chromium">>, <<"chrome/", "Chrome">>,
     <<"fxios/", "Firefox">>, <<"firefox/", "Firefox">>,
     <<"seamonkey/", "SeaMonkey">>, <<"trident/", "Internet Explorer">>,
     <<"msie", "Internet Explorer">>, <<"safari/", "Safari">> >>

\* iOS before macOS ("like Mac OS X"), Android before Linux.
OSSignatures ==
  << <<"windows phone", "Windows Phone">>, <<"windows nt", "Windows">>,
     <<"windows", "Windows">>, <<"android", "Android">>,
     <<"cros ", "ChromeOS">>, <<"iphone", "iOS">>, <<"ipad", "iOS">>,
     <<"ipod", "iOS">>, <<"crios/", "iOS">>, <<"fxios/", "iOS">>,
     <<"mac os x", "macOS">>, <<"macintosh", "macOS">>,
     <<"freebsd", "FreeBSD">>, <<"openbsd", "OpenBSD">>, <<"linux", "Linux">>,
     <<"x11", "Linux">> >>

\* The name of the first signature that occurs, or "".
MatchSignature(ua, table) ==
  LET hits == {k \in 1..Len(table) : table[k][1] \in ua}
  IN  IF hits = {} THEN ""
      ELSE table[CHOOSE k \in hits : \A j \in hits : k <= j][2]

\* "bot$" is a string that ends in "bot".
LooksLikeBot(ua) ==
  ua \cap {"bot/", "bot ", "crawler", "spider", "scraper", "+http",
             "bot$"} # {}

FormFactor(ua, os) ==
  IF \/ ua \cap {"ipad", "tablet", "kindle", "playbook"} # {}
     \/ os = "Android" /\ "mobile" \notin ua
  THEN "tablet"
  ELSE IF \/ ua \cap {"mobile", "iphone", "ipod"} # {}
          \/ os = "Windows Phone"
  THEN "mobile"
  ELSE IF os \in {"Windows", "macOS", "Linux", "ChromeOS", "FreeBSD", "OpenBSD"}
  THEN "desktop" ELSE ""

Device(browser, os, form) == [browser |-> browser, os |-> os, form |-> form]

ParseUserAgent(ua) ==
  LET bot == MatchSignature(ua, BotSignatures)
      browser == MatchSignature(ua, BrowserSignatures)
      os == MatchSignature(ua, OSSignatures)
  IN  IF bot # "" THEN Device(bot, "", "bot")
      ELSE IF browser = "" /\ LooksLikeBot(ua) THEN Device("Bot", "", "bot")
      ELSE Device(browser, os, FormFactor(ua, os))

\* Device.String: the parts that it prints.
DeviceString(d) ==
  IF d.browser = "" /\ d.os = "" THEN {"Unknown device"}
  ELSE {d.browser, d.os} \ {""}

-----------------------------------------------------------------------------
(* security.Location; a field of nothing but blanks is "blank" *)

Location(city, region, country) ==
  [city |-> city, region |-> region, country |-> country]

Nowhere == Location("", "", "")

\* strings.TrimSpace.
TrimSpace(text) == IF text = "blank" THEN "" ELSE text

Fields(l) == {l.city, l.region, l.country}

IsZero(l) == \A part \in Fields(l) : TrimSpace(part) = ""

\* Location.String: the parts that it joins.
LocationString(l) == {TrimSpace(part) : part \in Fields(l)} \ {""}

Label(device, place) ==
  DeviceString(device) \cup (IF IsZero(place) THEN {} ELSE LocationString(place))

-----------------------------------------------------------------------------
(* session.ListNamed *)

Named(s, place) ==
  [id |-> s.id, ip |-> s.ip, ua |-> s.ua, device |-> ParseUserAgent(s.ua),
   place |-> place, label |-> Label(ParseUserAgent(s.ua), place)]

\* Mutant: every session is looked up.
CachedNever(ip) == FALSE

Cached(ip) == ip \in DOMAIN located

\* A session without an address, or with one that was asked for already.
NameKnown ==
  /\ next <= Len(listed)
  /\ listed[next].ip = "" \/ Cached(listed[next].ip)
  /\ named' = Append(named,
       Named(listed[next], IF listed[next].ip = "" THEN Nowhere
                           ELSE located[listed[next].ip]))
  /\ next' = next + 1
  /\ UNCHANGED <<listed, located, lookups>>

\* geo.Locate.  Its error counts as Nowhere, and either is remembered for
\* the rest of the call.
NameLocated(place) ==
  /\ next <= Len(listed)
  /\ listed[next].ip # "" /\ ~Cached(listed[next].ip)
  /\ located' = [ip \in DOMAIN located \cup {listed[next].ip} |->
                   IF ip = listed[next].ip THEN place ELSE located[ip]]
  /\ lookups' = Append(lookups, listed[next].ip)
  /\ named' = Append(named, Named(listed[next], place))
  /\ next' = next + 1
  /\ UNCHANGED listed

DevicesInit ==
  /\ listed \in Listings
  /\ next = 1
  /\ located = [ip \in {} |-> Nowhere]
  /\ lookups = <<>>
  /\ named = <<>>

DevicesNext == NameKnown \/ \E place \in Places \cup {Nowhere} : NameLocated(place)

DevicesSpec == DevicesInit /\ [][DevicesNext]_deviceVars

-----------------------------------------------------------------------------
(* Properties *)

\* Which browsers' strings contain which others' signatures.
Imitates ==
  {"Edge", "Opera", "Samsung Internet", "Yandex Browser", "Vivaldi", "Brave",
   "Chromium"}
    \X {"Chrome", "Safari"} \cup {<<"Chrome", "Safari">>}

\* The browsers whose signature occurs.
Browsers(ua) ==
  {BrowserSignatures[k][2] :
     k \in {j \in 1..Len(BrowserSignatures) : BrowserSignatures[j][1] \in ua}}

(***************************************************************************)
(* ListNamed lists the sessions it was given in their order, each with a   *)
(* label that is not empty; asks for each address once, so that one        *)
(* address has one place throughout a list even where lookups fail now and *)
(* then; and names no browser that another one on the string imitates, no  *)
(* iPhone or iPad as a Mac, and no operating system for a bot.             *)
(* (ListNamed, ParseUserAgent, Label)                                      *)
(***************************************************************************)
ListingNamesEverySession ==
  /\ \A k \in 1..Len(named) :
       LET n == named[k]
       IN  /\ n.id = listed[k].id
           /\ n.label # {} /\ "" \notin n.label
           /\ \A j \in 1..Len(named) : named[j].ip = n.ip => named[j].place = n.place
           /\ n.device.form = "bot" => n.device.os = ""
           /\ n.device.form # "bot" =>
                \A b \in Browsers(n.ua) : <<b, n.device.browser>> \notin Imitates
           /\ n.ua \cap {"iphone", "ipad"} # {} => n.device.os # "macOS"
  /\ \A i, j \in 1..Len(lookups) : lookups[i] = lookups[j] => i = j

=============================================================================
