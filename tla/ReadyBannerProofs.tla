------------------------- MODULE ReadyBannerProofs --------------------------
(***************************************************************************)
(* ReadyBanner's safety for any tokens, .env files and number of starts.   *)
(* VolumeIsTrue speaks of a door that serves; that its token is the one on *)
(* the volume is decided earlier, so the invariant follows the token from  *)
(* the moment it is picked (TokenFollows).  The half about URLs is         *)
(* inductive as it is; that the URL shown is live needs that the log ends  *)
(* with the tunnel's (LogEndsLive).                                        *)
(***************************************************************************)
EXTENDS ReadyBanner, TLAPS

TokenFollows ==
    /\ server \in {"picked", "guards", "serving"} =>
          /\ expected # NoToken
          /\ env.token \in {NoToken, expected}
    /\ server \in {"guards", "serving"} => tokenFile = expected

UrlsOfThisUp ==
    reboots = 0 =>
        /\ \A i \in DOMAIN cfLog : cfLog[i].up = ups
        /\ banner.url = NoUrl \/ \E i \in DOMAIN cfLog : banner.url = cfLog[i]

Inv == TypeOK /\ TokenFollows /\ UrlsOfThisUp

LEMMA InitInv == Init => Inv
<1> SUFFICES ASSUME Init PROVE Inv
  OBVIOUS
<1>1. TypeOK
  BY BannerAssumption DEF Init, TypeOK, NoBanner, Nothing, NoUrl, Urls, Tokens
<1>2. TokenFollows
  BY DEF Init, TokenFollows
<1>3. UrlsOfThisUp
  BY DEF Init, UrlsOfThisUp, NoBanner
<1> QED
  BY <1>1, <1>2, <1>3 DEF Inv

LEMMA TypeStep == TypeOK /\ [Next]_vars => TypeOK'
<1> SUFFICES ASSUME TypeOK, [Next]_vars PROVE TypeOK'
  OBVIOUS
<1> USE DEF TypeOK, stackVars, serverVars, tunnelVars, readyVars
<1>0. NoUrl \in Urls /\ Nothing \in [token : Tokens \cup {NoToken}, healthy : BOOLEAN]
  BY DEF NoUrl, Urls, Nothing
<1>1. CASE ComposeUp
  BY <1>0, <1>1 DEF ComposeUp, ContainersStart, InitShared, NoBanner
<1>2. CASE Reboot
  BY <1>0, <1>2 DEF Reboot, ContainersStart, NoBanner
<1>3. CASE PickToken
  <2>1. env.token \in Tokens \cup {NoToken}
    BY BannerAssumption DEF EnvType, Tokens
  <2>2. boots + 1 \in Tokens
    BY DEF Tokens
  <2> QED
    BY <1>3, <2>1, <2>2 DEF PickToken
<1>4. CASE PublishToken
  BY <1>4 DEF PublishToken
<1>5. CASE Guards
  BY <1>5 DEF Guards
<1>6. CASE ServerCrashes
  BY <1>6 DEF ServerCrashes
<1>7. CASE ServerRestarts
  BY <1>7 DEF ServerRestarts
<1>8. CASE TunnelUp
  <2>1. [name |-> tunnels + 1, up |-> ups] \in Urls
    BY DEF Urls
  <2>2. cfLog' \in Seq(Urls)
    BY <1>8, <2>1 DEF TunnelUp
  <2> QED
    BY <1>8, <2>2 DEF TunnelUp
<1>9. CASE TunnelRestarts
  BY <1>9 DEF TunnelRestarts
<1>10. CASE SeeToken
  BY <1>10 DEF SeeToken
<1>11. CASE SeeHealth
  BY <1>11 DEF SeeHealth
<1>12. CASE PrintBanner
  <2>1. QuickUrl \in Urls
    BY <1>0 DEF QuickUrl, Last
  <2> QED
    BY <1>12, <2>1 DEF PrintBanner
<1>13. CASE UNCHANGED vars
  BY <1>13 DEF vars
<1> QED
  BY <1>1, <1>2, <1>3, <1>4, <1>5, <1>6, <1>7, <1>8, <1>9, <1>10, <1>11, <1>12, <1>13
  DEF Next, Ready

LEMMA TokenStep == TypeOK /\ TokenFollows /\ [Next]_vars => TokenFollows'
<1> SUFFICES ASSUME TypeOK, TokenFollows, [Next]_vars PROVE TokenFollows'
  OBVIOUS
<1> USE DEF TokenFollows, stackVars, serverVars
<1>1. CASE ComposeUp \/ Reboot
  BY <1>1 DEF ComposeUp, Reboot, ContainersStart
<1>2. CASE PickToken
  <2>1. boots + 1 \in Tokens
    BY DEF TypeOK, Tokens
  <2> QED
    BY <1>2, <2>1, BannerAssumption DEF PickToken
<1>3. CASE PublishToken \/ Guards \/ ServerCrashes \/ ServerRestarts
  BY <1>3 DEF PublishToken, Guards, ServerCrashes, ServerRestarts
<1>4. CASE TunnelUp \/ TunnelRestarts \/ Ready \/ UNCHANGED vars
  BY <1>4 DEF TunnelUp, TunnelRestarts, Ready, SeeToken, SeeHealth, PrintBanner, vars
<1> QED
  BY <1>1, <1>2, <1>3, <1>4 DEF Next

LEMMA UrlStep == TypeOK /\ UrlsOfThisUp /\ [Next]_vars => UrlsOfThisUp'
<1> SUFFICES ASSUME TypeOK, UrlsOfThisUp, [Next]_vars PROVE UrlsOfThisUp'
  OBVIOUS
<1> USE DEF UrlsOfThisUp, stackVars, tunnelVars, readyVars
<1>1. CASE ComposeUp
  BY <1>1 DEF ComposeUp, ContainersStart, InitShared, NoBanner
<1>2. CASE Reboot
  BY <1>2 DEF Reboot, TypeOK
<1>3. CASE PickToken \/ PublishToken \/ Guards \/ ServerCrashes \/ ServerRestarts
  BY <1>3 DEF PickToken, PublishToken, Guards, ServerCrashes, ServerRestarts
<1>4. CASE TunnelUp
  <2> DEFINE url == [name |-> tunnels + 1, up |-> ups]
  <2>1. url \in Urls /\ cfLog \in Seq(Urls)
    BY DEF TypeOK, Urls
  <2>2. /\ DOMAIN Append(cfLog, url) = 1 .. Len(cfLog) + 1
        /\ \A i \in 1 .. Len(cfLog) : Append(cfLog, url)[i] = cfLog[i]
        /\ Append(cfLog, url)[Len(cfLog) + 1] = url
        /\ DOMAIN cfLog = 1 .. Len(cfLog) /\ Len(cfLog) \in Nat
    BY <2>1
  <2> QED
    BY <1>4, <2>2 DEF TunnelUp
<1>5. CASE TunnelRestarts \/ SeeToken \/ SeeHealth \/ UNCHANGED vars
  BY <1>5 DEF TunnelRestarts, SeeToken, SeeHealth, vars
<1>6. CASE PrintBanner
  <2>1. cfLog # <<>> => Len(cfLog) \in DOMAIN cfLog
    BY DEF TypeOK
  <2> QED
    BY <1>6, <2>1 DEF PrintBanner, QuickUrl, Last
<1> QED
  BY <1>1, <1>2, <1>3, <1>4, <1>5, <1>6 DEF Next, Ready

LEMMA InvHolds == Spec => []Inv
<1>1. Inv /\ [Next]_vars => Inv'
  BY TypeStep, TokenStep, UrlStep DEF Inv
<1> QED
  BY InitInv, <1>1, PTL DEF Spec

\* Every value on the volume, in the processes and in the banner keeps its
\* type, for any tokens, .env files and bounds.
THEOREM TypeCorrect == Spec => []TypeOK
BY InvHolds, PTL DEF Inv

\* A serving door has a token and it is the one on /shared, the operator's
\* if he chose one; until a reboot the log and the banner have no URL of an
\* earlier creation of the stack.
THEOREM VolumeAlwaysTrue == Spec => []VolumeIsTrue
<1>1. Inv => VolumeIsTrue
  <2> SUFFICES ASSUME Inv PROVE VolumeIsTrue
    OBVIOUS
  <2>1. \A i \in DOMAIN cfLog : cfLog[i] \in ToSet(cfLog)
    BY DEF ToSet
  <2> QED
    BY <2>1 DEF Inv, TokenFollows, UrlsOfThisUp, VolumeIsTrue
<1> QED
  BY InvHolds, <1>1, PTL
-----------------------------------------------------------------------------
(* A running tunnel was the last to write to the log, whatever the log has *)
(* of earlier starts.                                                      *)
LogEndsLive ==
    tunnel = "up" => cfLog # <<>> /\ Last(cfLog) = [name |-> tunnels, up |-> ups]

LEMMA LogEndsLiveStep ==
    ASSUME TypeOK, LogEndsLive, [Next]_vars
    PROVE  LogEndsLive'
<1> USE DEF LogEndsLive, stackVars, tunnelVars
<1>1. CASE ComposeUp \/ Reboot
  BY <1>1 DEF ComposeUp, Reboot, ContainersStart
<1>2. CASE PickToken \/ PublishToken \/ Guards \/ ServerCrashes \/ ServerRestarts
  BY <1>2 DEF PickToken, PublishToken, Guards, ServerCrashes, ServerRestarts
<1>3. CASE TunnelUp
  <2> DEFINE url == [name |-> tunnels + 1, up |-> ups]
  <2>1. url \in Urls /\ cfLog \in Seq(Urls)
    BY DEF TypeOK, Urls
  <2>2. /\ Len(Append(cfLog, url)) = Len(cfLog) + 1 /\ Len(cfLog) \in Nat
        /\ Append(cfLog, url)[Len(cfLog) + 1] = url
    BY <2>1
  <2>3. Append(cfLog, url) # <<>> /\ Last(Append(cfLog, url)) = url
    BY <2>2 DEF Last
  <2> QED
    BY <1>3, <2>3 DEF TunnelUp
<1>4. CASE TunnelRestarts
  BY <1>4 DEF TunnelRestarts
<1>5. CASE Ready \/ UNCHANGED vars
  BY <1>5 DEF Ready, SeeToken, SeeHealth, PrintBanner, vars
<1> QED
  BY <1>1, <1>2, <1>3, <1>4, <1>5 DEF Next

\* A banner made while cloudflared runs shows the URL that is live, over any
\* number of restarts of the tunnel, reboots and creations of the stack.
THEOREM UrlAlwaysLive == Spec => UrlIsLive
<1> DEFINE Live == PrintBanner /\ tunnel = "up"
                      => banner'.url = [name |-> tunnels, up |-> ups]
<1>1. Init => LogEndsLive
  BY DEF Init, LogEndsLive
<1>2. Inv /\ LogEndsLive /\ [Next]_vars => LogEndsLive'
  BY LogEndsLiveStep DEF Inv
<1>3. LogEndsLive => Live
  BY DEF LogEndsLive, PrintBanner, QuickUrl
<1>4. LogEndsLive /\ [Next]_vars => [Live]_vars
  BY <1>3
<1> QED
  BY InvHolds, <1>1, <1>2, <1>4, PTL DEF Spec, UrlIsLive
-----------------------------------------------------------------------------
(* What is left of LiveTokenIsRight.  The banner can only show a token of  *)
(* an earlier start: while the stack was created once, and the token is    *)
(* the operator's or the door was started once, what the ready service saw *)
(* or printed while the door serves is the token the door expects.         *)
FirstTokenIsRight ==
    ups <= 1 /\ (env.token # NoToken \/ boots <= 1) /\ server = "serving" =>
        {seen.token, banner.token} \subseteq {NoToken, expected}

Shows(S) == tokenFile \in S /\ seen.token \in S /\ banner.token \in S

\* The tokens there can be so early: none, the operator's, the first one made.
FirstToken ==
    /\ ups = 0 => server = "down" /\ ready = "down" /\ boots = 0
    /\ boots = 0 => Shows({NoToken}) /\ expected = NoToken
    /\ ups <= 1 /\ env.token # NoToken => Shows({NoToken, env.token})
    /\ ups <= 1 /\ env.token = NoToken /\ boots <= 1 =>
           Shows({NoToken, 1}) /\ expected \in {NoToken, 1}

LEMMA FirstTokenStep ==
    ASSUME TypeOK, TokenFollows, FirstToken, [Next]_vars
    PROVE  FirstToken'
<1> USE DEF FirstToken, Shows, stackVars, serverVars, tunnelVars, readyVars
<1>0. ups \in Nat /\ boots \in Nat
  BY DEF TypeOK
<1>1. CASE ComposeUp
  <2>1. Nothing.token = NoToken /\ NoBanner.token = NoToken
    BY DEF Nothing, NoBanner
  <2>2. /\ ups' = ups + 1 /\ server' = "starting" /\ expected' = NoToken
        /\ tokenFile' = tokenFile /\ boots' = boots
        /\ seen'.token = NoToken /\ banner'.token = NoToken
    BY <1>1, <2>1 DEF ComposeUp, ContainersStart
  <2> QED
    BY <1>0, <2>2
<1>2. CASE Reboot
  <2>1. Nothing.token = NoToken /\ NoBanner.token = NoToken
    BY DEF Nothing, NoBanner
  <2>2. /\ ups > 0 /\ ups' = ups /\ env' = env /\ expected' = NoToken
        /\ tokenFile' = tokenFile /\ boots' = boots
        /\ seen'.token = NoToken /\ banner'.token = NoToken
    BY <1>2, <2>1 DEF Reboot, ContainersStart
  <2> QED
    BY <1>0, <2>2
<1>3. CASE PickToken
  <2>1. /\ server = "starting" /\ boots' = boots + 1
        /\ env.token = NoToken => expected' = boots + 1
        /\ UNCHANGED <<env, ups, tokenFile, seen, banner>>
    BY <1>3 DEF PickToken
  <2>2. ups # 0
    BY <2>1
  <2> QED
    BY <1>0, <2>1, <2>2
<1>4. CASE PublishToken
  <2>1. /\ server = "picked" /\ tokenFile' = expected
        /\ UNCHANGED <<env, ups, expected, boots, seen, banner>>
    BY <1>4 DEF PublishToken
  <2>2. expected # NoToken /\ env.token \in {NoToken, expected}
    BY <2>1 DEF TokenFollows
  <2> QED
    BY <1>0, <2>1, <2>2
<1>5. CASE Guards \/ ServerCrashes
  BY <1>5 DEF Guards, ServerCrashes
<1>6. CASE ServerRestarts
  BY <1>6 DEF ServerRestarts
<1>7. CASE SeeToken
  <2>1. /\ ready = "token" /\ seen'.token = tokenFile
        /\ UNCHANGED <<env, ups, tokenFile, server, expected, boots, banner>>
    BY <1>7 DEF SeeToken, TypeOK
  <2> QED
    BY <2>1
<1>8. CASE SeeHealth
  <2>1. /\ ready = "health" /\ seen'.token = seen.token
        /\ UNCHANGED <<env, ups, tokenFile, server, expected, boots, banner>>
    BY <1>8 DEF SeeHealth, TypeOK
  <2> QED
    BY <2>1
<1>9. CASE PrintBanner
  <2>1. /\ ready = "url" /\ banner'.token = seen.token
        /\ UNCHANGED <<env, ups, tokenFile, server, expected, boots, seen>>
    BY <1>9 DEF PrintBanner
  <2> QED
    BY <2>1
<1>10. CASE TunnelUp \/ TunnelRestarts \/ UNCHANGED vars
  BY <1>10 DEF TunnelUp, TunnelRestarts, vars
<1> QED
  BY <1>1, <1>2, <1>3, <1>4, <1>5, <1>6, <1>7, <1>8, <1>9, <1>10 DEF Next, Ready

\* A wrong token in the banner needs a second start of the stack, or of a
\* door whose token is generated.
THEOREM FirstTokenAlwaysRight == Spec => []FirstTokenIsRight
<1>1. Init => FirstToken
  BY DEF Init, FirstToken, Shows, Nothing, NoBanner
<1>2. Inv /\ FirstToken /\ [Next]_vars => FirstToken'
  BY FirstTokenStep DEF Inv
<1>3. Inv /\ FirstToken => FirstTokenIsRight
  <2> SUFFICES ASSUME Inv, FirstToken, server = "serving", ups <= 1,
                      env.token # NoToken \/ boots <= 1
               PROVE  {seen.token, banner.token} \subseteq {NoToken, expected}
    BY DEF FirstTokenIsRight
  <2>1. expected # NoToken /\ env.token \in {NoToken, expected}
    BY DEF Inv, TokenFollows
  <2>2. CASE env.token # NoToken
    BY <2>1, <2>2 DEF FirstToken, Shows
  <2>3. CASE env.token = NoToken
    BY <2>1, <2>3 DEF FirstToken, Shows
  <2> QED
    BY <2>2, <2>3
<1> QED
  BY InvHolds, <1>1, <1>2, <1>3, PTL DEF Spec
=============================================================================
