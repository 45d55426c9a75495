------------------------------- MODULE Config -------------------------------
(***************************************************************************)
(* The configuration of a node (mesh_config.go) and the file that          *)
(* `meshd init` writes (runInit of main.go).                               *)
(*                                                                         *)
(* A layer is a function on the fields of MeshConfig.  A field that is not *)
(* set holds the zero value of its Go type; a missing file is a layer of   *)
(* zeros.  Text is not modelled below the level of fields: what the YAML   *)
(* library reads back from a quoted or plain scalar is what was written.   *)
(***************************************************************************)
EXTENDS Integers, Sequences, TLAPS

CONSTANTS
    Blank,           \* strings that TrimSpace empties
    DefaultStun, DefaultProxies,
    Derive(_, _)     \* key and overlay address of a PSK and a name

Ints  == {"port", "mtu"}
Lists == {"stun", "proxies", "announce"}
Bools == {"dry_run", "firewall_selfheal"}
Field == Ints \cup Lists \cup Bools \cup
         {"psk", "name", "iface", "cidr", "poll", "stale", "backend"}

\* The zero value of a field.
ZeroOf(f) == IF f \in Ints THEN 0 ELSE IF f \in Lists THEN <<>>
             ELSE IF f \in Bools THEN FALSE ELSE ""

Unset == [f \in Field |-> ZeroOf(f)]

-----------------------------------------------------------------------------
(* mesh_config.go.                                                         *)

NotEmpty(part) == part # ""

(***************************************************************************)
(* What flagsToMesh makes of a flag that was given.  The flag package has  *)
(* parsed an integer and prints it again, and atoiOrZero takes the sign of *)
(* a negative one for garbage; a list is the text between the commas;      *)
(* other flags are taken as they are.                                      *)
(***************************************************************************)
ReadFlag(f, v) ==
    IF f \in Ints THEN IF v < 0 THEN 0 ELSE v
    ELSE IF f \in Lists THEN SelectSeq(v, NotEmpty) ELSE v

flagsToMesh(flags) ==
    [f \in Field |-> IF f \in DOMAIN flags THEN ReadFlag(f, flags[f]) ELSE ZeroOf(f)]

mergeMeshInto(dst, src) ==
    [f \in Field |-> IF src[f] # ZeroOf(f) THEN src[f] ELSE dst[f]]

\* MESH_PSK and MESH_NAME, each unless its flag was given.
EnvInto(dst, env, flags) ==
    [f \in Field |-> IF f \in DOMAIN env \ DOMAIN flags THEN env[f] ELSE dst[f]]

ResolveMesh(defs, file, env, flags) ==
    mergeMeshInto(EnvInto(mergeMeshInto(defs, file), env, flags), flagsToMesh(flags))

-----------------------------------------------------------------------------
(* meshd init.                                                             *)

\* The file written for rc, as LoadMeshConfig reads it.
renderConfigYAML(rc) ==
    [rc EXCEPT !["stun"]    = IF @ = <<>> THEN DefaultStun ELSE @,
               !["proxies"] = IF @ = <<>> THEN DefaultProxies ELSE @]

\* runInit puts a fresh secret in place of a blank PSK.
runInit(rc, secret) ==
    renderConfigYAML([rc EXCEPT !["psk"] = IF @ \in Blank THEN secret ELSE @])

\* The identity it prints: main has built the Deriver from the resolved PSK before.
Reported(rc) == Derive(rc["psk"], rc["name"])

\* The identity of a daemon that runs with cfg.
Identity(cfg) == Derive(cfg["psk"], cfg["name"])

-----------------------------------------------------------------------------
(* What holds.                                                             *)

\* main passes the variables that are set and not empty, and the flags that were given.
GoodEnv(env) == DOMAIN env \subseteq {"psk", "name"} /\ \A f \in DOMAIN env : env[f] # ""
GoodFlags(flags) == DOMAIN flags \subseteq Field \ {"firewall_selfheal"}

None == [f \in {} |-> ""]

Layers(defs, file, env, flags) ==
    <<defs, file, EnvInto(Unset, env, None), flagsToMesh(flags)>>

\* c has, for every field, the value of the highest layer that sets it.
IsTopmost(c, layers) ==
    \A f \in Field :
        LET setters == {i \in DOMAIN layers : layers[i][f] # ZeroOf(f)}
        IN  \/ setters = {} /\ c[f] = ZeroOf(f)
            \/ \E i \in setters : c[f] = layers[i][f] /\ \A j \in setters : j <= i

(***************************************************************************)
(* "defaults < file < env < flags" (mesh_config.go:42): every field has    *)
(* the value of the highest layer that sets it, as long as no flag was     *)
(* given a value that reads as zero.                                       *)
(***************************************************************************)
THEOREM Precedence ==
    ASSUME NEW defs, NEW file, NEW env, NEW flags,
           GoodEnv(env), GoodFlags(flags),
           \A f \in DOMAIN flags : flagsToMesh(flags)[f] # ZeroOf(f)
    PROVE  IsTopmost(ResolveMesh(defs, file, env, flags), Layers(defs, file, env, flags))
<1> DEFINE L == Layers(defs, file, env, flags)
           R == ResolveMesh(defs, file, env, flags)
           E == EnvInto(Unset, env, None)
<1>1. DOMAIN L = 1 .. 4 /\ L[1] = defs /\ L[2] = file /\ L[3] = E /\ L[4] = flagsToMesh(flags)
  BY DEF Layers
<1>2. SUFFICES ASSUME NEW f \in Field
               PROVE  LET setters == {i \in 1 .. 4 : L[i][f] # ZeroOf(f)}
                      IN  \/ setters = {} /\ R[f] = ZeroOf(f)
                          \/ \E i \in setters : R[f] = L[i][f] /\ \A j \in setters : j <= i
  BY <1>1 DEF IsTopmost
<1> DEFINE setters == {i \in 1 .. 4 : L[i][f] # ZeroOf(f)}
<1> HIDE DEF L
<1>3. E[f] = IF f \in DOMAIN env THEN env[f] ELSE ZeroOf(f)
  BY DEF EnvInto, Unset, None
<1>4. f \in DOMAIN env => env[f] # ZeroOf(f)
  BY DEF GoodEnv, ZeroOf, Ints, Lists, Bools
<1>5. R[f] = IF L[4][f] # ZeroOf(f) THEN L[4][f]
             ELSE IF f \in DOMAIN env \ DOMAIN flags THEN env[f]
             ELSE IF L[2][f] # ZeroOf(f) THEN L[2][f] ELSE L[1][f]
  BY <1>1 DEF ResolveMesh, mergeMeshInto, EnvInto
<1>6. L[4][f] = ZeroOf(f) => f \notin DOMAIN flags
  BY <1>1
<1>7. R[f] = IF 4 \in setters THEN L[4][f] ELSE IF 3 \in setters THEN L[3][f]
             ELSE IF 2 \in setters THEN L[2][f] ELSE L[1][f]
  BY <1>1, <1>3, <1>4, <1>5, <1>6
<1>8. setters \subseteq 1 .. 4 /\ (setters = {} => L[1][f] = ZeroOf(f))
  OBVIOUS
<1> HIDE DEF R, setters
<1>9. CASE 4 \in setters
  BY <1>7, <1>8, <1>9 DEF setters
<1>10. CASE 4 \notin setters /\ 3 \in setters
  BY <1>7, <1>8, <1>10 DEF setters
<1>11. CASE 4 \notin setters /\ 3 \notin setters /\ 2 \in setters
  BY <1>7, <1>8, <1>11 DEF setters
<1>12. CASE 4 \notin setters /\ 3 \notin setters /\ 2 \notin setters /\ 1 \in setters
  BY <1>7, <1>8, <1>12 DEF setters
<1>13. CASE setters = {}
  BY <1>7, <1>8, <1>13 DEF setters
<1> QED
  BY <1>8, <1>9, <1>10, <1>11, <1>12, <1>13 DEF setters

\* What every theorem about init assumes of the built-in lists and the fresh secret.
InitAssumption(secret) ==
    /\ "" \in Blank /\ secret \notin Blank
    /\ DefaultStun # <<>> /\ DefaultProxies # <<>>

\* Resolving never unsets what the defaults set (mesh_config.go:44-107).
LEMMA DefaultsStay ==
    ASSUME NEW defs, NEW file, NEW env, NEW flags, GoodEnv(env), NEW f \in Field,
           ResolveMesh(defs, file, env, flags)[f] = ZeroOf(f)
    PROVE  defs[f] = ZeroOf(f)
<1>1. f \in DOMAIN env => env[f] # ZeroOf(f)
  BY DEF GoodEnv, ZeroOf, Ints, Lists, Bools
<1> QED
  BY <1>1 DEF ResolveMesh, mergeMeshInto, EnvInto

\* The file sets its lists and its PSK, and holds the resolved values otherwise (main.go:512-517, 582-589).
LEMMA WrittenFile ==
    ASSUME NEW defs, NEW file, NEW env, NEW flags, NEW secret, InitAssumption(secret)
    PROVE  LET rc == ResolveMesh(defs, file, env, flags)
               w  == runInit(rc, secret)
           IN  /\ w = [f \in Field |-> w[f]]
               /\ \A f \in Field : \/ w[f] # ZeroOf(f)
                                   \/ w[f] = rc[f]
               /\ w["psk"] = IF rc["psk"] \in Blank THEN secret ELSE rc["psk"]
               /\ w["name"] = rc["name"]
<1> DEFINE rc == ResolveMesh(defs, file, env, flags)
           w  == runInit(rc, secret)
<1>1. rc = [f \in Field |-> rc[f]]
  BY DEF ResolveMesh, mergeMeshInto
<1>2. {"psk", "name", "stun", "proxies"} \subseteq Field
  BY DEF Field, Ints, Lists, Bools
<1>3. ZeroOf("psk") = "" /\ ZeroOf("stun") = <<>> /\ ZeroOf("proxies") = <<>>
  BY DEF ZeroOf, Ints, Lists, Bools
<1> HIDE DEF rc
<1>4. w = [f \in Field |->
             CASE f = "psk"     -> IF rc[f] \in Blank THEN secret ELSE rc[f]
               [] f = "stun"    -> IF rc[f] = <<>> THEN DefaultStun ELSE rc[f]
               [] f = "proxies" -> IF rc[f] = <<>> THEN DefaultProxies ELSE rc[f]
               [] OTHER         -> rc[f]]
  BY <1>1, <1>2 DEF runInit, renderConfigYAML
<1> QED
  BY <1>2, <1>3, <1>4 DEF InitAssumption, rc

(***************************************************************************)
(* runInit and LoadMeshConfig: a daemon started from the file alone has    *)
(* exactly the configuration init wrote, also where the defaults differ    *)
(* (another host name), as long as they set no further field.              *)
(***************************************************************************)
THEOREM StartsAsInitWrote ==
    ASSUME NEW defs, NEW file, NEW env, NEW flags, NEW secret, NEW defs2,
           GoodEnv(env), InitAssumption(secret),
           \A f \in Field : defs[f] = ZeroOf(f) => defs2[f] = ZeroOf(f)
    PROVE  LET w == runInit(ResolveMesh(defs, file, env, flags), secret)
           IN  ResolveMesh(defs2, w, None, None) = w
<1> DEFINE rc == ResolveMesh(defs, file, env, flags)
           w  == runInit(rc, secret)
<1>1. /\ w = [f \in Field |-> w[f]]
      /\ \A f \in Field : w[f] # ZeroOf(f) \/ w[f] = rc[f]
  BY WrittenFile
<1>2. \A f \in Field : rc[f] = ZeroOf(f) => defs2[f] = ZeroOf(f)
  BY DefaultsStay
<1> HIDE DEF rc, w
<1>3. \A f \in Field : w[f] = ZeroOf(f) => defs2[f] = ZeroOf(f)
  BY <1>1, <1>2
<1>4. ResolveMesh(defs2, w, None, None) =
        [f \in Field |-> IF w[f] # ZeroOf(f) THEN w[f] ELSE defs2[f]]
  BY DEF ResolveMesh, mergeMeshInto, EnvInto, flagsToMesh, None
<1>5. ResolveMesh(defs2, w, None, None) = w
  BY <1>1, <1>3, <1>4
<1> QED
  BY <1>5 DEF rc, w

(***************************************************************************)
(* runInit's report: with a PSK from the file, the environment or a flag   *)
(* init prints the identity the node will have (main.go:528-529).          *)
(***************************************************************************)
THEOREM InitReportsIdentity ==
    ASSUME NEW defs, NEW file, NEW env, NEW flags, NEW secret,
           GoodEnv(env), InitAssumption(secret),
           ResolveMesh(defs, file, env, flags)["psk"] \notin Blank
    PROVE  LET rc == ResolveMesh(defs, file, env, flags)
           IN  Reported(rc) = Identity(ResolveMesh(defs, runInit(rc, secret), None, None))
<1> DEFINE rc == ResolveMesh(defs, file, env, flags)
           w  == runInit(rc, secret)
<1>1. ResolveMesh(defs, w, None, None) = w
  BY StartsAsInitWrote
<1>2. w["psk"] = rc["psk"] /\ w["name"] = rc["name"]
  BY WrittenFile
<1> HIDE DEF rc, w
<1>3. Reported(rc) = Identity(ResolveMesh(defs, w, None, None))
  BY <1>1, <1>2 DEF Reported, Identity
<1> QED
  BY <1>3 DEF rc, w

(***************************************************************************)
(* When init generates the PSK the report is of another identity: the keys *)
(* and the address were derived from the blank PSK (main.go:173, 514,      *)
(* 530-534), if different PSKs derive different identities.                *)
(***************************************************************************)
THEOREM GeneratedSecretMisreported ==
    ASSUME NEW defs, NEW file, NEW env, NEW flags, NEW secret,
           GoodEnv(env), InitAssumption(secret),
           ResolveMesh(defs, file, env, flags)["psk"] \in Blank,
           \A p, q, n : Derive(p, n) = Derive(q, n) => p = q
    PROVE  LET rc == ResolveMesh(defs, file, env, flags)
           IN  Reported(rc) # Identity(ResolveMesh(defs, runInit(rc, secret), None, None))
<1> DEFINE rc == ResolveMesh(defs, file, env, flags)
           w  == runInit(rc, secret)
<1>1. ResolveMesh(defs, w, None, None) = w
  BY StartsAsInitWrote
<1>2. w["psk"] = secret /\ w["name"] = rc["name"] /\ rc["psk"] # secret
  BY WrittenFile DEF InitAssumption
<1> HIDE DEF rc, w
<1>3. Reported(rc) # Identity(ResolveMesh(defs, w, None, None))
  BY <1>1, <1>2 DEF Reported, Identity
<1> QED
  BY <1>3 DEF rc, w
=============================================================================
