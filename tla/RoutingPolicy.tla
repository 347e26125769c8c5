---------------------------- MODULE RoutingPolicy ----------------------------
(***************************************************************************)
(* Which devices a text is routed to (routing/policy.py and                *)
(* routing/capabilities.py): pure functions of the request, the connected  *)
(* devices in the order of the registry, and what these can do.  A text is *)
(* its number of words.                                                    *)
(***************************************************************************)
EXTENDS Lists, SequencesExt

LONG_RESPONSE_WORD_THRESHOLD == 100

\* A capability record: the seconds a device may speak, and its two roles.
Capability == [speaks : Nat, foreground : BOOLEAN, background : BOOLEAN]

Able(seconds, isForeground, isBackground) ==
  [speaks |-> seconds, foreground |-> isForeground, background |-> isBackground]

\* The profiles of get_capabilities_for_device_type, for a device whose hello
\* carried capabilities that are no record.
Profile ==
  [speaker |-> Able(120, TRUE, FALSE), display |-> Able(60, TRUE, FALSE),
   cli |-> Able(120, TRUE, FALSE), dashboard |-> Able(300, FALSE, TRUE),
   watch |-> Able(30, TRUE, FALSE), phone |-> Able(180, TRUE, FALSE),
   stick |-> Able(60, TRUE, FALSE), unknown |-> Able(120, TRUE, FALSE)]

Unreadable(type) == [type |-> type]
Offer == Capability \cup [type : DOMAIN Profile]
Readable(offer) == "speaks" \in DOMAIN offer
Read(offer) == IF Readable(offer) THEN offer ELSE Profile[offer.type]

\* can_speak_duration of estimate_duration, at 150 words a minute.
CanSpeak(c, words) == words * 60 <= c.speaks * 150

IsLong(words) == words > LONG_RESPONSE_WORD_THRESHOLD

FirstOf(devices) == IF devices = <<>> THEN <<>> ELSE <<Head(devices)>>

Foreground(devices, caps) == Those(devices, {d \in ToSet(devices) : Read(caps[d]).foreground})
Background(devices, caps) == Those(devices, {d \in ToSet(devices) : Read(caps[d]).background})
Capable(devices, caps, words) ==
  Those(devices, {d \in ToSet(devices) : CanSpeak(Read(caps[d]), words)})

\* Mutated: the duration is not looked at.
FirstForeground(devices, caps, words) == FirstOf(Foreground(devices, caps))

\* _route_short_response.
RouteShort(devices, caps, words) ==
  LET foreground == Foreground(devices, caps)
      capable == Capable(foreground, caps, words)
  IN IF capable # <<>> THEN FirstOf(capable) ELSE FirstOf(foreground)

\* _route_long_response; its branch for all capable foreground devices is never
\* reached, as the first of them is selected before.
RouteLong(devices, caps, words) ==
  LET capable == Capable(devices, caps, words)
      selected == FirstOf(Foreground(capable, caps)) \o Background(capable, caps)
  IN IF selected # <<>> THEN selected ELSE FirstOf(capable)

\* _evaluate_explicit: every device is looked up and its capabilities read, which
\* raises if they are no record.
ExplicitFails(ids, devices, caps) ==
  \E i \in DOMAIN ids : ~Contains(devices, ids[i]) \/ ~Readable(caps[ids[i]])

\* evaluate: the devices chosen, none on failure.  A single device_id is not an
\* explicit selection (has_explicit_devices looks at device_ids).
Evaluate(request, devices, caps) ==
  IF request.ids # <<>>
  THEN IF ExplicitFails(request.ids, devices, caps) THEN <<>> ELSE request.ids
  ELSE IF IsLong(request.words) \/ request.multiple
       THEN RouteLong(devices, caps, request.words)
       ELSE RouteShort(devices, caps, request.words)
=============================================================================
