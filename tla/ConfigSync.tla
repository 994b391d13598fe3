----------------------------- MODULE ConfigSync -----------------------------
(***************************************************************************)
(* The global configuration on several instances                           *)
(* (internal/config/settings.go, redis_sync.go, time.go).                  *)
(*                                                                         *)
(* applyConfigUpdate runs under configMu: it stages the settings file,     *)
(* broadcasts (SET of the Redis key, then PUBLISH) when the update is a    *)
(* local one, renames the file and stores the configuration in memory.     *)
(* Every subscribed instance, the publisher included, applies what it      *)
(* receives.  The message carries the whole configuration and no version.  *)
(* A configuration is a model value; a save makes a new one (the handlers  *)
(* that change one field start from the memory they read before the lock,  *)
(* so what they save is a new configuration too).                          *)
(***************************************************************************)
EXTENDS Naturals, Sequences, FiniteSets

CONSTANTS Server, Config, Default, IntervalOf, NoConfig, MaxConfigFaults

\* What the code guarantees of the constants.
ConfigConstants == Default \in Config /\ NoConfig \notin Config

VARIABLES redisConfig,  \* the Redis key
          file,         \* per instance: the settings file
          config,       \* per instance: configValue
          inbox,        \* per instance: messages of its subscription
          server,       \* per instance: "down", "read", "unpublished", "announced", "loaded" or "subscribed"
          update,       \* per instance: the local update that holds configMu
          offered,      \* per instance: the check (or scrape) listener's channel, of capacity 1
          adopted,      \* per instance: the interval the listener works with
          unsaved,      \* configurations nobody has saved yet
          latest, heard,\* the last published one and who is to hear it (history)
          configFaults

configVars == <<redisConfig, file, config, inbox, server, update, offered, adopted,
                unsaved, latest, heard, configFaults>>

NoUpdate == [cfg |-> NoConfig, step |-> "none"]
Up(n) == server[n] # "down"
Subscribed == {n \in Server : server[n] = "subscribed"}
Fault == configFaults < MaxConfigFaults /\ configFaults' = configFaults + 1
EndUpdate(n) == update' = [update EXCEPT ![n] = NoUpdate]
UpdateAt(n, step) == update[n].step = step

ConfigInit ==
  /\ redisConfig = NoConfig
  /\ file = [n \in Server |-> Default] /\ config = file
  /\ inbox = [n \in Server |-> <<>>]
  /\ server = [n \in Server |-> "down"]
  /\ update = [n \in Server |-> NoUpdate]
  /\ offered = [n \in Server |-> <<>>]
  /\ adopted = [n \in Server |-> IntervalOf[Default]]
  /\ unsaved = Config \ {Default}
  /\ latest = NoConfig /\ heard = {}
  /\ configFaults = 0

-----------------------------------------------------------------------------
\* setTimeBetweenChecks and sendLatestInterval: a changed interval replaces the
\* one the listener has not read yet.
SendLatestInterval(n, old, new) == IF new = old THEN offered[n] ELSE <<new>>

\* The end of applyConfigUpdate: rename, configValue.Store, SetBetweenTime.
Apply(n, c) ==
  /\ file' = [file EXCEPT ![n] = c]
  /\ config' = [config EXCEPT ![n] = c]
  /\ offered' = [offered EXCEPT ![n] = SendLatestInterval(n, IntervalOf[config[n]], IntervalOf[c])]

\* The listener reads its channel and works with what it finds there.
AdoptInterval(n) ==
  /\ Up(n) /\ offered[n] # <<>>
  /\ adopted' = [adopted EXCEPT ![n] = offered[n][1]]
  /\ offered' = [offered EXCEPT ![n] = <<>>]
  /\ UNCHANGED <<redisConfig, file, config, inbox, server, update, unsaved, latest, heard, configFaults>>

-----------------------------------------------------------------------------
(* Start of an instance.                                                   *)

\* ReadSettings; CheckIntervalUpdates offers the current interval.
ReadSettings(n) ==
  /\ server[n] = "down"
  /\ server' = [server EXCEPT ![n] = "read"]
  /\ config' = [config EXCEPT ![n] = file[n]]
  /\ offered' = [offered EXCEPT ![n] = <<IntervalOf[file[n]]>>]
  /\ UNCHANGED <<redisConfig, file, inbox, update, adopted, unsaved, latest, heard, configFaults>>

\* loadConfigFromRedis: applied, or there is none and this one is published; so
\* it is when Redis does not answer the GET.  What cannot be decoded or applied
\* is left there, and this one is neither changed nor published.
LoadConfigFromRedis(n) ==
  /\ server[n] = "read"
  /\ \/ /\ redisConfig # NoConfig
        /\ Apply(n, redisConfig)
        /\ server' = [server EXCEPT ![n] = "loaded"]
        /\ UNCHANGED configFaults
     \/ /\ redisConfig # NoConfig /\ Fault
        /\ server' = [server EXCEPT ![n] = "loaded"]
        /\ UNCHANGED <<file, config, offered>>
     \/ /\ redisConfig # NoConfig => Fault
        /\ redisConfig = NoConfig => UNCHANGED configFaults
        /\ server' = [server EXCEPT ![n] = "unpublished"]
        /\ UNCHANGED <<file, config, offered>>
  /\ UNCHANGED <<redisConfig, inbox, update, adopted, unsaved, latest, heard>>

\* PUBLISH: every instance subscribed now gets the message.
Publish(c) ==
  /\ inbox' = [n \in Server |-> IF n \in Subscribed THEN Append(inbox[n], c) ELSE inbox[n]]
  /\ latest' = c
  /\ heard' = Subscribed

\* The SET and the PUBLISH of EnableRedisSynchronization, without the lock: an
\* instance that starts has no request to serve yet.  An error is only logged.
PublishOwnSet(n) ==
  /\ server[n] = "unpublished"
  /\ redisConfig' = config[n]
  /\ server' = [server EXCEPT ![n] = "announced"]
  /\ UNCHANGED <<file, config, inbox, update, offered, adopted, unsaved, latest, heard, configFaults>>
PublishOwn(n) ==
  /\ server[n] = "announced"
  /\ Publish(config[n])
  /\ server' = [server EXCEPT ![n] = "loaded"]
  /\ UNCHANGED <<redisConfig, file, config, update, offered, adopted, unsaved, configFaults>>
PublishOwnFails(n) ==
  /\ server[n] \in {"unpublished", "announced"} /\ Fault
  /\ server' = [server EXCEPT ![n] = "loaded"]
  /\ UNCHANGED <<redisConfig, file, config, inbox, update, offered, adopted, unsaved, latest, heard>>

\* subscribeToConfigUpdates runs after the load: what is published in between is missed.
SubscribeToConfigUpdates(n) ==
  /\ server[n] = "loaded"
  /\ server' = [server EXCEPT ![n] = "subscribed"]
  /\ UNCHANGED <<redisConfig, file, config, inbox, update, offered, adopted, unsaved, latest, heard, configFaults>>

-----------------------------------------------------------------------------
(* A local update: SetConfig, UpdateGeoLiteConfig, UpdateAbuseIPDBStatus.  *)

\* The lock is taken and the file staged; a failure up to here changes nothing.
StageConfig(n, c) ==
  /\ server[n] \in {"loaded", "subscribed"} /\ UpdateAt(n, "none")
  /\ c \in unsaved
  /\ unsaved' = unsaved \ {c}
  /\ update' = [update EXCEPT ![n] = [cfg |-> c, step |-> "staged"]]
  /\ UNCHANGED <<redisConfig, file, config, inbox, server, offered, adopted, latest, heard, configFaults>>

BroadcastSet(n) ==
  /\ UpdateAt(n, "staged")
  /\ redisConfig' = update[n].cfg
  /\ update' = [update EXCEPT ![n].step = "set"]
  /\ UNCHANGED <<file, config, inbox, server, offered, adopted, unsaved, latest, heard, configFaults>>
BroadcastPublish(n) ==
  /\ UpdateAt(n, "set")
  /\ Publish(update[n].cfg)
  /\ update' = [update EXCEPT ![n].step = "published"]
  /\ UNCHANGED <<redisConfig, file, config, server, offered, adopted, unsaved, configFaults>>

\* Redis answers with an error or too late, having executed the command or not:
\* the staged file is removed and the update refused.
BroadcastFails(n) ==
  /\ Fault
  /\ \/ UpdateAt(n, "staged") /\ redisConfig' \in {redisConfig, update[n].cfg}
        /\ UNCHANGED <<inbox, latest, heard>>
     \/ UpdateAt(n, "set") /\ Publish(update[n].cfg) /\ UNCHANGED redisConfig
     \/ UpdateAt(n, "set") /\ UNCHANGED <<redisConfig, inbox, latest, heard>>
  /\ EndUpdate(n)
  /\ UNCHANGED <<file, config, server, offered, adopted, unsaved>>

CommitUpdate(n) ==
  /\ UpdateAt(n, "published")
  /\ Apply(n, update[n].cfg)
  /\ EndUpdate(n)
  /\ UNCHANGED <<redisConfig, inbox, server, adopted, unsaved, latest, heard, configFaults>>
\* The rename fails after the others were told.
CommitFails(n) ==
  /\ UpdateAt(n, "published") /\ Fault
  /\ EndUpdate(n)
  /\ UNCHANGED <<redisConfig, file, config, inbox, server, offered, adopted, unsaved, latest, heard>>

-----------------------------------------------------------------------------
\* subscribeToConfigUpdates: a message waits for configMu and is applied,
\* an instance's own message too.
ReceiveConfigUnlocked(n) ==
  /\ server[n] = "subscribed" /\ inbox[n] # <<>>
  /\ Apply(n, inbox[n][1])
  /\ inbox' = [inbox EXCEPT ![n] = Tail(@)]
  /\ UNCHANGED <<redisConfig, server, update, adopted, unsaved, latest, heard, configFaults>>
ReceiveConfig(n) ==
  /\ server[n] = "subscribed" /\ inbox[n] # <<>> /\ UpdateAt(n, "none")
  /\ Apply(n, inbox[n][1])
  /\ inbox' = [inbox EXCEPT ![n] = Tail(@)]
  /\ UNCHANGED <<redisConfig, server, update, adopted, unsaved, latest, heard, configFaults>>
\* The file cannot be staged or renamed: logged, and the message is gone.
ReceiveFails(n) ==
  /\ server[n] = "subscribed" /\ inbox[n] # <<>> /\ UpdateAt(n, "none") /\ Fault
  /\ inbox' = [inbox EXCEPT ![n] = Tail(@)]
  /\ heard' = heard \ {n}
  /\ UNCHANGED <<redisConfig, file, config, server, update, offered, adopted, unsaved, latest>>

\* The connection of the subscription breaks: what it held is lost.
SubscriptionBreaks(n) ==
  /\ server[n] = "subscribed" /\ Fault
  /\ server' = [server EXCEPT ![n] = "loaded"]
  /\ inbox' = [inbox EXCEPT ![n] = <<>>]
  /\ heard' = heard \ {n}
  /\ UNCHANGED <<redisConfig, file, config, update, offered, adopted, unsaved, latest>>
ServerCrashes(n) ==
  /\ Up(n) /\ Fault
  /\ server' = [server EXCEPT ![n] = "down"]
  /\ inbox' = [inbox EXCEPT ![n] = <<>>]
  /\ heard' = heard \ {n}
  /\ EndUpdate(n)
  /\ UNCHANGED <<redisConfig, file, config, offered, adopted, unsaved, latest>>

ConfigNext ==
  \E n \in Server :
    \/ ReadSettings(n) \/ LoadConfigFromRedis(n) \/ PublishOwnSet(n) \/ PublishOwn(n)
    \/ PublishOwnFails(n) \/ SubscribeToConfigUpdates(n)
    \/ \E c \in Config : StageConfig(n, c)
    \/ BroadcastSet(n) \/ BroadcastPublish(n) \/ BroadcastFails(n)
    \/ CommitUpdate(n) \/ CommitFails(n) \/ ReceiveConfig(n) \/ ReceiveFails(n)
    \/ SubscriptionBreaks(n) \/ ServerCrashes(n) \/ AdoptInterval(n)

ConfigSpec == ConfigInit /\ [][ConfigNext]_configVars

-----------------------------------------------------------------------------
ConfigTypeOK ==
  /\ redisConfig \in Config \union {NoConfig} /\ latest \in Config \union {NoConfig}
  /\ file \in [Server -> Config] /\ config \in [Server -> Config]
  /\ server \in [Server -> {"down", "read", "unpublished", "announced", "loaded", "subscribed"}]
  /\ \A n \in Server : update[n].step \in {"none", "staged", "set", "published"} /\ Len(offered[n]) =< 1
  /\ unsaved \subseteq Config /\ heard \subseteq Server

\* Concurrent saves on several instances do not leave them apart: an instance
\* that lost no message of its subscription and has none left to apply, and no
\* update under way, works with the configuration published last, in whatever
\* order the instances stored their own.  (Applying its own message is what
\* brings a publisher back after a newer one overtook it.)
ConfigsAgree ==
  \A n \in heard : (inbox[n] = <<>> /\ UpdateAt(n, "none")) => config[n] = latest

\* The check and the scrape interval never go stale: their listener works with
\* the one of the configuration in memory, or the channel holds that one for it
\* to read.  (The blacklist and geolocation setters leave a full channel as it
\* is, and have no such promise: time.go.)
IntervalReachesListener ==
  \A n \in Server : Up(n) =>
    IF offered[n] = <<>> THEN adopted[n] = IntervalOf[config[n]]
                         ELSE offered[n] = <<IntervalOf[config[n]]>>

\* What the synchronisation promises: the instances agree, and each works with
\* the interval of its configuration.
ConfigurationSpreads == ConfigsAgree /\ IntervalReachesListener
=============================================================================
