---------------------------- MODULE ProfiledLink ----------------------------
(***************************************************************************)
(* StreamLink with the AdaptiveProfiler of the sending runtime.  send      *)
(* shows each record it encoded to the profiler, and the profiler may      *)
(* reconfigure the runtime before send_stream gives that very record to    *)
(* the StreamOptimizer: pending is the record in between.  The statistics  *)
(* are kept for each schema, but there is one pair of decisions for all.   *)
(*                                                                         *)
(* CounterFields are numbers and OtherFields are strings.  installed and   *)
(* untouched are history: what the user last installed, and whether a      *)
(* window ended since the profiler was started or reset, with nothing      *)
(* installed by the user after it.                                         *)
(***************************************************************************)
EXTENDS StreamLink

CONSTANTS
    Profilers,      \* the settings of the profiler: [enabled, window]
    FirstProfiler,
    UserConfigs,    \* what set_stream_optimizer_config may install
    Profiles,       \* the profiles: [stream, dictionary, adaptive]
    Repetition,     \* repeated_string_ratio_threshold, as <<n, d>>
    HitRate,        \* dictionary_hit_rate_threshold
    Unchanged,      \* unchanged_field_ratio_threshold
    Calls,          \* what the application may do besides send_stream
    Nothing         \* no record is pending

ASSUME ProfilerAssumption ==
    /\ Profilers \subseteq [enabled : BOOLEAN, window : Nat]
    /\ FirstProfiler \in Profilers
    /\ UserConfigs \subseteq Configs
    /\ Profiles \subseteq [stream : Configs, dictionary : BOOLEAN, adaptive : BOOLEAN]
    /\ \A c \in Configs, on \in BOOLEAN : [c EXCEPT !.delta = on] \in Configs
    /\ \A t \in {Repetition, HitRate, Unchanged} : t \in Nat \X (Nat \ {0})
    /\ Calls \subseteq {"send", "setStream", "setDictionary", "applyProfile",
                        "setAdaptive", "resetProfiler"}
    /\ Nothing \notin Records

VARIABLES
    dictOn,    \* the sender's dictionary is enabled
    explicit,  \* stream_explicit_ and dictionary_explicit_
    profiler,  \* config_ of the profiler
    stats,     \* stats_
    previous,  \* previous_strings_
    decision,  \* dictionary_enabled_, delta_enabled_, decisions_applied_
    pending,
    installed, untouched

settings == <<dictOn, explicit, installed>>
observed == <<profiler, stats, previous, decision>>
profiledVars == <<vars, settings, observed, pending, untouched>>

\* WindowStats: totals of fields and strings are multiples of the samples.
NoStats == [samples |-> 0, repeated |-> 0, hits |-> 0, unchanged |-> 0,
            strings |-> {}, last |-> NoPayload]

NoDecision == [dictionary |-> FALSE, delta |-> FALSE, applied |-> FALSE]

ProfiledInit ==
    /\ Init
    /\ dictOn = FALSE
    /\ explicit = [stream |-> FALSE, dictionary |-> FALSE]
    /\ profiler = FirstProfiler
    /\ stats = [s \in Schemas |-> NoStats]
    /\ previous = [s \in Schemas |-> {}]
    /\ decision = NoDecision
    /\ pending = Nothing
    /\ installed = [stream |-> FirstConfig, dictionary |-> FALSE]
    /\ untouched = FALSE

-----------------------------------------------------------------------------
(* observe: one record more in the window of its schema *)

\* The fields are visited one by one: a string that occurs in two fields of
\* one record counts as repeated once.
Fresh(strings, p) == {p[f] : f \in OtherFields} \ strings
RepeatedIn(strings, p) == Cardinality(OtherFields) - Cardinality(Fresh(strings, p))
HitsIn(strings, p) == Cardinality({f \in OtherFields : p[f] \in strings})

Same(prev, p) ==
    IF prev = NoPayload THEN 0 ELSE Cardinality(Fields \ Changed(prev, p))

Observe(s, p) ==
    [stats EXCEPT ![s] =
        [samples   |-> @.samples + 1,
         repeated  |-> @.repeated + RepeatedIn(@.strings, p),
         hits      |-> @.hits + HitsIn(previous[s], p),
         unchanged |-> @.unchanged + Same(@.last, p),
         strings   |-> @.strings \cup Fresh(@.strings, p),
         last      |-> p]]

-----------------------------------------------------------------------------
(* maybe_apply: a decision at the end of a window *)

\* part / whole >= t, where nothing of nothing is 0.
AtLeast(part, whole, t) == IF whole = 0 THEN t[1] = 0 ELSE part * t[2] >= whole * t[1]

\* In the first window repetition stands in for the hits.
Wanted(s, w) ==
    LET strings == w.samples * Cardinality(OtherFields)
        hits == IF previous[s] = {} THEN w.repeated ELSE w.hits
    IN  [dictionary |-> /\ AtLeast(w.repeated, strings, Repetition)
                        /\ AtLeast(hits, strings, HitRate),
         delta |-> AtLeast(w.unchanged, w.samples * Cardinality(Fields), Unchanged)]

\* configure replaces a window of 0 by 1.
Window == IF profiler.window = 0 THEN 1 ELSE profiler.window

Completed(now) == {s \in Schemas : now[s].samples >= Window}

\* Mutated forms: a first decision that agrees with the initial one is not
\* applied; explicit settings are not looked at; the forced keyframe is left
\* out.
MustApplyChanged(want, done) ==
    \E s \in done : want[s].dictionary # decision.dictionary \/ want[s].delta # decision.delta
DecidedAlways(d) ==
    [stream |-> [cfg EXCEPT !.delta = d.delta], dictionary |-> d.dictionary]
InstallQuietly(c, d) == cfg' = c /\ dictOn' = d /\ UNCHANGED sender

MustApply(want, done) ==
    \/ ~decision.applied
    \/ \E s \in done : want[s].dictionary # decision.dictionary \/ want[s].delta # decision.delta

\* apply_decisions: only what the user did not configure explicitly.
Decided(d) ==
    [stream |-> IF explicit.stream THEN cfg ELSE [cfg EXCEPT !.delta = d.delta],
     dictionary |-> IF explicit.dictionary THEN dictOn ELSE d.dictionary]

\* apply_optimization_settings: a change of the delta mode forces a keyframe.
Install(c, d) ==
    /\ cfg' = c
    /\ dictOn' = d
    /\ IF c.delta # cfg.delta THEN ForgetDeltas ELSE UNCHANGED sender

\* The schemas whose window is over are visited in the order of a hash map;
\* the decision of the last of them stands.
MaybeApply(now) ==
    LET done == Completed(now)
        want == [s \in done |-> Wanted(s, now[s])]
    IN  IF done = {}
        THEN /\ stats' = now
             /\ UNCHANGED <<cfg, dictOn, sender, previous, decision, untouched>>
        ELSE /\ untouched' = (untouched \/ ~decision.applied)
             /\ stats' = [s \in Schemas |-> IF s \in done THEN NoStats ELSE now[s]]
             /\ previous' = [s \in Schemas |-> IF s \in done THEN now[s].strings
                                                              ELSE previous[s]]
             /\ \E last \in done :
                  /\ decision' = [dictionary |-> want[last].dictionary,
                                  delta |-> want[last].delta,
                                  applied |-> TRUE]
                  /\ IF MustApply(want, done)
                     THEN LET c == Decided(want[last])
                          IN Install(c.stream, c.dictionary)
                     ELSE UNCHANGED <<cfg, dictOn, sender>>

\* send, once the record is encoded.
Profile(s, p) ==
    IF profiler.enabled
    THEN MaybeApply(Observe(s, p))
    ELSE UNCHANGED <<cfg, dictOn, sender, stats, previous, decision, untouched>>

-----------------------------------------------------------------------------
(* The application's calls *)

Idle == pending = Nothing

\* send_stream begins with send ...
BeginSend(s, p) ==
    /\ Idle
    /\ Len(sent) < MaxRecords
    /\ Profile(s, p)
    /\ pending' = [schema |-> s, payload |-> p]
    /\ UNCHANGED <<receiver, channel, controls, sent, outcome, explicit,
                   profiler, installed>>

\* ... and ends with optimize_outgoing, under the settings it now finds.
EndSend ==
    /\ ~Idle
    /\ SendStream(pending.schema, pending.payload)
    /\ pending' = Nothing
    /\ UNCHANGED <<settings, observed, untouched>>

\* send on its own: the record is observed but is not part of the stream.
Send(s, p) ==
    /\ "send" \in Calls
    /\ Idle
    /\ controls < MaxControls
    /\ controls' = controls + 1
    /\ Profile(s, p)
    /\ UNCHANGED <<receiver, channel, sent, outcome, explicit, profiler,
                   pending, installed>>

SetStream(c) ==
    /\ "setStream" \in Calls
    /\ Idle
    /\ Configure(c)
    /\ explicit' = [explicit EXCEPT !.stream = TRUE]
    /\ installed' = [installed EXCEPT !.stream = c]
    /\ untouched' = FALSE
    /\ UNCHANGED <<dictOn, observed, pending>>

SetDictionary(d) ==
    /\ "setDictionary" \in Calls
    /\ Idle
    /\ controls < MaxControls
    /\ controls' = controls + 1
    /\ dictOn' = d
    /\ explicit' = [explicit EXCEPT !.dictionary = TRUE]
    /\ installed' = [installed EXCEPT !.dictionary = d]
    /\ untouched' = FALSE
    /\ UNCHANGED <<cfg, sender, receiver, channel, sent, outcome, observed, pending>>

\* apply_configured_profile: it replaces explicit settings too, without
\* making its own explicit; an adaptive profile switches the profiler on,
\* another one leaves it as it is.
ApplyProfile(profile) ==
    /\ "applyProfile" \in Calls
    /\ Idle
    /\ controls < MaxControls
    /\ controls' = controls + 1
    /\ Install(profile.stream, profile.dictionary)
    /\ IF profile.adaptive THEN profiler' \in {a \in Profilers : a.enabled}
                           ELSE UNCHANGED profiler
    /\ installed' = [stream |-> profile.stream, dictionary |-> profile.dictionary]
    /\ untouched' = FALSE
    /\ UNCHANGED <<receiver, channel, sent, outcome, explicit, stats, previous,
                   decision, pending>>

SetAdaptive(a) ==
    /\ "setAdaptive" \in Calls
    /\ Idle
    /\ controls < MaxControls
    /\ controls' = controls + 1
    /\ profiler' = a
    /\ UNCHANGED <<cfg, sender, receiver, channel, sent, outcome, settings,
                   stats, previous, decision, pending, untouched>>

ResetProfiler ==
    /\ "resetProfiler" \in Calls
    /\ Idle
    /\ controls < MaxControls
    /\ controls' = controls + 1
    /\ stats' = [s \in Schemas |-> NoStats]
    /\ previous' = [s \in Schemas |-> {}]
    /\ decision' = NoDecision
    /\ untouched' = FALSE
    /\ UNCHANGED <<cfg, sender, receiver, channel, sent, outcome, settings,
                   profiler, pending>>

\* flush_stream, and reset_stream_optimizer.
OtherCalls == Idle /\ (Flush \/ ResetSender)

ProfiledNext ==
    \/ \E s \in Schemas, p \in Payloads : BeginSend(s, p) \/ Send(s, p)
    \/ EndSend
    \/ \E c \in UserConfigs : SetStream(c)
    \/ \E profile \in Profiles : ApplyProfile(profile)
    \/ \E d \in BOOLEAN : SetDictionary(d)
    \/ \E a \in Profilers : SetAdaptive(a)
    \/ ResetProfiler
    \/ OtherCalls /\ UNCHANGED <<settings, observed, pending, untouched>>
    \/ ReceiveStream /\ UNCHANGED <<settings, observed, pending, untouched>>

ProfiledSpec == ProfiledInit /\ [][ProfiledNext]_profiledVars
-----------------------------------------------------------------------------
(* What should be true of it *)

\* "User settings always win": the profiler never touches what the user
\* configured explicitly, and of the rest it changes nothing but the two
\* switches it decides about, however many windows end in between.
UserWins ==
    /\ cfg = [installed.stream EXCEPT !.delta = cfg.delta]
    /\ explicit.stream => cfg = installed.stream
    /\ explicit.dictionary => dictOn = installed.dictionary

\* From its first window on, and until the user installs something else, the
\* runtime does what the profiler last decided, also when that was what the
\* profiler had assumed before any window ended.
DecisionInForce ==
    untouched =>
        /\ explicit.stream \/ cfg.delta = decision.delta
        /\ explicit.dictionary \/ dictOn = decision.dictionary
=============================================================================
