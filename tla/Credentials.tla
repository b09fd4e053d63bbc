---------------------------- MODULE Credentials ----------------------------
(***************************************************************************)
(* Credentials at rest: the endpoint and the secret of a notification      *)
(* channel (service/notification.go) and the key of an AI provider         *)
(* (service/ai_provider.go), encrypted under the operator's keyring        *)
(* (credential_keyring.go) and moved to its first key at every start       *)
(* (credential_migration.go), while the operator rotates the keys and      *)
(* requests edit both rows.                                                *)
(*                                                                         *)
(* A ciphertext is the plain value and the key that opens it: AES-GCM      *)
(* opens with no other key.                                                *)
(***************************************************************************)
EXTENDS Integers, FiniteSets, Sequences

CONSTANTS CredentialKeys, Values, SettingRequests,
          None,                    \* no key configured; an empty credential
          Plain,                   \* the "key" of a value stored as it is
          MaxStarts, MaxUpdates    \* bounds

ASSUME CredentialAssumption ==
  /\ None \notin CredentialKeys \cup Values /\ Plain \notin CredentialKeys \cup {None}
  /\ None \notin [v : Values, k : CredentialKeys \cup {Plain}]
  /\ "free" \notin SettingRequests
  /\ {MaxStarts, MaxUpdates} \subseteq Nat

VARIABLES
  server,        \* what the server is doing: a phase of its start, or "up"
  keyring,       \* the keys it was started with
  prepared,      \* the migrated rows a start has in memory
  tx,            \* the rows as the transaction of a start has them
  setting,       \* the notification_settings row
  aiProvider,    \* the ai_providers row
  secretMu,      \* NotificationService.secretMu
  update,        \* what every request is doing
  entered,       \* the endpoint and secret last acknowledged (history)
  enteredFor,    \* the endpoint the stored secret was entered for (history)
  openedBy,      \* the keys of the last start that committed (history)
  starts, updates

startVars == <<server, keyring, prepared, tx, openedBy>>
rowVars == <<setting, aiProvider, entered, enteredFor>>
credVars == <<startVars, rowVars, secretMu, update, starts, updates>>

up == server = "up"
Migrating == {"read settings", "read providers", "write settings",
              "write providers", "commit"}

Cred == [v : Values, k : CredentialKeys \cup {Plain}] \cup {None}
SecretSetting == [exists : BOOLEAN, url : Cred, secret : Cred]
NoSetting == [exists |-> FALSE, url |-> None, secret |-> None]
Typed == Values \cup {None}
NoHolder == "free"
Unprepared == [setting |-> NoSetting, key |-> None]
AtRest == [pc |-> "rest", url |-> None, secret |-> None, row |-> NoSetting,
           key |-> None]

CredentialTypeOK ==
  /\ server \in Migrating \cup {"down", "migrated", "up"}
  /\ keyring \in Seq(CredentialKeys) /\ Cardinality({keyring[i] : i \in DOMAIN keyring}) = Len(keyring)
  /\ {prepared, tx} \subseteq [setting : SecretSetting, key : Cred]
  /\ openedBy \subseteq CredentialKeys \cup {Plain}
  /\ setting \in SecretSetting /\ aiProvider \in [live : BOOLEAN, key : Cred]
  /\ secretMu \in SettingRequests \cup {NoHolder}
  /\ update \in [SettingRequests -> [pc : {"rest", "read", "save", "provider"},
                              url : Typed, secret : Typed, row : SecretSetting,
                              key : Cred]]
  /\ entered \in [url : Typed, secret : Typed] /\ enteredFor \in Typed
  /\ starts \in 0..MaxStarts /\ updates \in 0..MaxUpdates

\* A database of an older release: credentials stored as they were typed, and
\* the key of a provider perhaps encrypted already.
CredentialInit ==
  /\ server = "down" /\ keyring = <<>> /\ prepared = Unprepared /\ tx = Unprepared
  /\ \E url \in Typed, secret \in Typed, key \in Typed :
       LET legacy(v) == IF v = None THEN None ELSE [v |-> v, k |-> Plain] IN
       /\ setting = [exists |-> url # None \/ secret # None,
                     url |-> legacy(url), secret |-> legacy(secret)]
       /\ \E k \in CredentialKeys \cup {Plain} :
            /\ aiProvider = [live |-> TRUE,
                 key |-> IF key = None THEN None ELSE [v |-> key, k |-> k]]
            /\ openedBy = {k, Plain}
       /\ entered = [url |-> url, secret |-> secret] /\ enteredFor = url
  /\ secretMu = NoHolder /\ update = [q \in SettingRequests |-> AtRest]
  /\ starts = 0 /\ updates = 0

-----------------------------------------------------------------------------
(* The keyring and the two envelopes.                                      *)

\* newCredentialKeyring: the keys that are set, each once, in order.
Distinct(candidates) ==
  LET seen(i) == {candidates[j] : j \in 1..(i - 1)} \cup {None}
      kept == {i \in DOMAIN candidates : candidates[i] \notin seen(i)}
  IN [n \in 1..Cardinality(kept) |->
        candidates[CHOOSE i \in kept : Cardinality({j \in kept : j <= i}) = n]]

\* credentialEncryptionSecrets: an independent key comes before the JWT
\* secret, which stays as a fallback; the previous key comes last.
Keyring(independent, jwt, previous) == Distinct(<<independent, jwt, previous>>)

Primary(ring) == ring[1]
Opens(ring) == {ring[i] : i \in DOMAIN ring} \cup {Plain}

Readable(cred, ring) == cred # None => cred.k \in Opens(ring)
Protect(v, ring) == IF v = None THEN None ELSE [v |-> v, k |-> Primary(ring)]
Revealed(cred) == IF cred = None THEN None ELSE cred.v

\* migrateNotificationSecret and migrateAISecret, of a readable credential.
Migrated(cred, ring) == Protect(Revealed(cred), ring)

MigratedSetting(row, ring) ==
  [row EXCEPT !.url = Migrated(@, ring), !.secret = Migrated(@, ring)]

ReadableSetting(row, ring) == Readable(row.url, ring) /\ Readable(row.secret, ring)

-----------------------------------------------------------------------------
(* Starting and stopping the server.  Nothing else runs before it is up:    *)
(* MigrateStoredCredentials prepares both groups of rows, then writes both  *)
(* in one transaction.                                                      *)

Down == server' = "down" /\ prepared' = Unprepared /\ tx' = Unprepared

\* The operator starts the server with keys of their choice; a JWT secret is
\* always there.
Start(independent, jwt, previous) ==
  /\ server = "down" /\ starts < MaxStarts /\ starts' = starts + 1
  /\ server' = "read settings"
  /\ keyring' = Keyring(independent, jwt, previous)
  /\ UNCHANGED <<prepared, tx, openedBy, rowVars, secretMu, update, updates>>

\* A credential that no key opens stops the start.
PrepareSettings ==
  /\ server = "read settings"
  /\ IF ReadableSetting(setting, keyring)
     THEN /\ server' = "read providers"
          /\ prepared' = [prepared EXCEPT !.setting = MigratedSetting(setting, keyring)]
          /\ UNCHANGED tx
     ELSE Down
  /\ UNCHANGED <<keyring, openedBy, rowVars, secretMu, update, starts, updates>>

\* A provider that was deleted is not among those read.
PrepareProviders ==
  /\ server = "read providers"
  /\ IF aiProvider.live => Readable(aiProvider.key, keyring)
     THEN /\ server' = "write settings"
          /\ prepared' = [prepared EXCEPT !.key =
               IF aiProvider.live THEN Migrated(aiProvider.key, keyring)
               ELSE aiProvider.key]
          /\ tx' = [setting |-> setting, key |-> aiProvider.key]
     ELSE Down
  /\ UNCHANGED <<keyring, openedBy, rowVars, secretMu, update, starts, updates>>

\* Mutant: the settings are written outside the transaction.
WriteSettingsAtOnce ==
  /\ server = "write settings" /\ server' = "write providers"
  /\ tx' = [tx EXCEPT !.setting = prepared.setting]
  /\ setting' = prepared.setting
  /\ UNCHANGED <<keyring, prepared, openedBy, aiProvider, entered, enteredFor,
                 secretMu, update, starts, updates>>

\* UpdateSecretsBatch, of both repositories on the transaction.
WriteSettings ==
  /\ server = "write settings" /\ server' = "write providers"
  /\ tx' = [tx EXCEPT !.setting = prepared.setting]
  /\ UNCHANGED <<keyring, prepared, openedBy, rowVars, secretMu, update, starts,
                 updates>>

WriteProviders ==
  /\ server = "write providers" /\ server' = "commit"
  /\ tx' = [tx EXCEPT !.key = prepared.key]
  /\ UNCHANGED <<keyring, prepared, openedBy, rowVars, secretMu, update, starts,
                 updates>>

CommitMigration ==
  /\ server = "commit" /\ server' = "migrated"
  /\ setting' = tx.setting /\ aiProvider' = [aiProvider EXCEPT !.key = tx.key]
  /\ openedBy' = Opens(keyring)
  /\ prepared' = Unprepared /\ tx' = Unprepared
  /\ UNCHANGED <<keyring, entered, enteredFor, secretMu, update, starts, updates>>

\* The rest of the start: no request is served before it is done.
Listen ==
  /\ server = "migrated" /\ server' = "up"
  /\ UNCHANGED <<keyring, prepared, tx, openedBy, rowVars, secretMu, update,
                 starts, updates>>

\* The server stops or dies, or gives its start up because a write, the
\* commit or a later part of it failed.  The transaction and the requests
\* under way are gone.  A commit that is reported as failed may have taken
\* place: that is CommitMigration and then this.
Stop ==
  /\ server # "down" /\ Down
  /\ secretMu' = NoHolder /\ update' = [q \in SettingRequests |-> AtRest]
  /\ UNCHANGED <<keyring, openedBy, rowVars, starts, updates>>

-----------------------------------------------------------------------------
(* NotificationService.Update, under secretMu from end to end.             *)

\* Mutant: nothing keeps a second request out.
AskUpdateUnlocked(q, url, secret) ==
  /\ up /\ update[q].pc = "rest" /\ updates < MaxUpdates
  /\ updates' = updates + 1 /\ secretMu' = q
  /\ update' = [update EXCEPT ![q] = [AtRest EXCEPT !.pc = "read", !.url = url,
                                                    !.secret = secret]]
  /\ UNCHANGED <<startVars, rowVars, starts>>

AskUpdate(q, url, secret) ==
  /\ up /\ update[q].pc = "rest" /\ updates < MaxUpdates
  /\ secretMu = NoHolder /\ secretMu' = q
  /\ updates' = updates + 1
  /\ update' = [update EXCEPT ![q] = [AtRest EXCEPT !.pc = "read", !.url = url,
                                                    !.secret = secret]]
  /\ UNCHANGED <<startVars, rowVars, starts>>

\* The row is read, and migrated in place should it still need to be.
ReadSetting(q) ==
  /\ update[q].pc = "read"
  /\ setting' = IF ReadableSetting(setting, keyring)
                THEN MigratedSetting(setting, keyring) ELSE setting
  /\ IF ReadableSetting(setting, keyring)
     THEN /\ update' = [update EXCEPT ![q].pc = "save", ![q].row = setting']
          /\ UNCHANGED secretMu
     ELSE update' = [update EXCEPT ![q] = AtRest] /\ secretMu' = NoHolder
  /\ UNCHANGED <<startVars, aiProvider, entered, enteredFor, starts, updates>>

\* notificationEndpointUnchanged: the secret is kept when the endpoint stays.
KeptSecret(u) ==
  IF u.row.url # None /\ u.url \in {None, u.row.url.v} THEN u.row.secret ELSE None

\* What the row becomes: what is typed is protected with the first key, what
\* is left empty is kept.
SavedSetting(u) ==
  [exists |-> TRUE,
   url    |-> IF u.url # None THEN Protect(u.url, keyring) ELSE u.row.url,
   secret |-> IF u.secret # None THEN Protect(u.secret, keyring)
              ELSE KeptSecret(u)]

SaveSetting(q) ==
  /\ update[q].pc = "save"
  /\ setting' = SavedSetting(update[q])
  /\ LET u == update[q]
         url == IF u.url # None THEN u.url ELSE entered.url
     IN /\ entered' = [url |-> url,
                       secret |-> IF u.secret # None THEN u.secret
                                  ELSE IF u.url \in {None, entered.url}
                                          /\ entered.url # None
                                  THEN entered.secret ELSE None]
        /\ enteredFor' = IF u.secret # None THEN url ELSE enteredFor
  /\ update' = [update EXCEPT ![q] = AtRest] /\ secretMu' = NoHolder
  /\ UNCHANGED <<startVars, aiProvider, starts, updates>>

\* restoreNotificationSettingsTx: a restored backup carries preferences only
\* and makes the row when there is none.
RestorePreferences ==
  /\ up /\ setting' = [setting EXCEPT !.exists = TRUE]
  /\ UNCHANGED <<startVars, aiProvider, entered, enteredFor, secretMu, update,
                 starts, updates>>

-----------------------------------------------------------------------------
(* AIProviderService: no lock; an update writes back the row it read.      *)

ReadProvider(q, key) ==
  /\ up /\ update[q].pc = "rest" /\ updates < MaxUpdates
  /\ aiProvider.live
  /\ updates' = updates + 1
  /\ update' = [update EXCEPT ![q] = [AtRest EXCEPT !.pc = "provider",
       !.key = IF key = None THEN aiProvider.key ELSE Protect(key, keyring)]]
  /\ UNCHANGED <<startVars, rowVars, secretMu, starts>>

\* gorm's Save puts a row back that was deleted after it was read.
SaveProvider(q) ==
  /\ update[q].pc = "provider"
  /\ aiProvider' = [live |-> TRUE, key |-> update[q].key]
  /\ update' = [update EXCEPT ![q] = AtRest]
  /\ UNCHANGED <<startVars, setting, entered, enteredFor, secretMu, starts, updates>>

DeleteProvider ==
  /\ up /\ aiProvider.live
  /\ aiProvider' = [aiProvider EXCEPT !.live = FALSE]
  /\ UNCHANGED <<startVars, setting, entered, enteredFor, secretMu, update, starts,
                 updates>>

CredentialNext ==
  \/ \E independent \in CredentialKeys \cup {None}, jwt \in CredentialKeys, previous \in CredentialKeys \cup {None} :
       Start(independent, jwt, previous)
  \/ PrepareSettings \/ PrepareProviders \/ WriteSettings \/ WriteProviders
  \/ CommitMigration \/ Listen
  \/ Stop \/ RestorePreferences \/ DeleteProvider
  \/ \E q \in SettingRequests :
       \/ \E url \in Typed, secret \in Typed : AskUpdate(q, url, secret)
       \/ \E key \in Typed : ReadProvider(q, key)
       \/ ReadSetting(q) \/ SaveSetting(q) \/ SaveProvider(q)

CredentialSpec == CredentialInit /\ [][CredentialNext]_credVars

-----------------------------------------------------------------------------
(* While the server runs every credential in use is under the first key of  *)
(* its keyring: the fallback keys can go at the next start, which is what   *)
(* makes a rotation end.                                                    *)
FallbackKeysAreSpent ==
  up => /\ \A c \in {setting.url, setting.secret} \ {None} : c.k = Primary(keyring)
        /\ aiProvider.live /\ aiProvider.key # None
             => aiProvider.key.k = Primary(keyring)

(* Neither rotations nor restarts nor two edits at once lose an endpoint or *)
(* a secret that was acknowledged: what the row opens to is what was typed. *)
CredentialsKeepTheirValue ==
  entered = [url |-> Revealed(setting.url), secret |-> Revealed(setting.secret)]

(* A stored secret is only ever that of the stored endpoint.                *)
SecretBelongsToEndpoint ==
  setting.secret # None => enteredFor = Revealed(setting.url)

(* What was entered is what is used, the secret with its own endpoint, and  *)
(* it opens without the fallback keys.                                      *)
CredentialsAreKept ==
  CredentialsKeepTheirValue /\ SecretBelongsToEndpoint /\ FallbackKeysAreSpent

(* The keys the server last ran with, or got through its migration with,    *)
(* open every credential in use at all times: whatever other keys the       *)
(* operator tries next, and wherever those starts are refused, fail or die, *)
(* going back to the configuration that worked is possible.                 *)
LastKeysStillOpen ==
  /\ \A c \in {setting.url, setting.secret} : c = None \/ c.k \in openedBy
  /\ aiProvider.live /\ aiProvider.key # None => aiProvider.key.k \in openedBy
=============================================================================
