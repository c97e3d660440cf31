------------------------------ MODULE TagIndex ------------------------------
(***************************************************************************)
(* InvertedIndex: the devices by tag.  A tag is the one string             *)
(* "key=value", kept here as the sequence of its symbols; a bitmap is the  *)
(* set of its ids.                                                         *)
(***************************************************************************)
EXTENDS Naturals, Sequences, SequencesExt, FiniteSets, Maps

NewTags == [tag_index |-> <<>>, device_id_to_name |-> <<>>,
            device_name_to_id |-> <<>>, next_device_id |-> 0]

TagOf(key, value) == key \o <<"=">> \o value

(* A known device keeps its id; its new tags are added to the old ones.    *)
AddDevice(index, name, tags) ==
    LET known == name \in DOMAIN index.device_name_to_id
        id    == IF known THEN index.device_name_to_id[name]
                 ELSE index.next_device_id
        named == {TagOf(t[1], t[2]) : t \in Range(tags)}
        OfTag(tag) == IF tag \in DOMAIN index.tag_index
                      THEN index.tag_index[tag] ELSE {}
    IN [tag_index |-> [tag \in DOMAIN index.tag_index \cup named |->
                         OfTag(tag) \cup (IF tag \in named THEN {id} ELSE {})],
        device_id_to_name |-> With(index.device_id_to_name, id, name),
        device_name_to_id |-> With(index.device_name_to_id, name, id),
        next_device_id |-> IF known THEN index.next_device_id
                           ELSE index.next_device_id + 1]

(* The names of a bitmap, by ascending id.                                 *)
NamesOf(index, ids) ==
    LET known == {id \in ids : id \in DOMAIN index.device_id_to_name}
        Nth(i) == CHOOSE id \in known : Cardinality({j \in known : j < id}) = i - 1
    IN [i \in 1..Cardinality(known) |-> index.device_id_to_name[Nth(i)]]

GetBitmap(index, key, value) ==
    IF TagOf(key, value) \in DOMAIN index.tag_index
    THEN index.tag_index[TagOf(key, value)] ELSE {}

QueryTag(index, key, value) == NamesOf(index, GetBitmap(index, key, value))

\* Mutant: a tag nobody has is passed over.
QueryTagsAnd_SkipsUnknown(index, tags) ==
    LET asked == {t \in Range(tags) : GetBitmap(index, t[1], t[2]) # {}}
        all == UNION {GetBitmap(index, t[1], t[2]) : t \in asked}
    IN IF tags = <<>> THEN <<>>
       ELSE NamesOf(index, {id \in all : \A t \in asked :
                                id \in GetBitmap(index, t[1], t[2])})

QueryTagsAnd(index, tags) ==
    IF tags = <<>> THEN <<>>
    ELSE NamesOf(index, {id \in GetBitmap(index, tags[1][1], tags[1][2]) :
                            \A t \in Range(Tail(tags)) :
                               id \in GetBitmap(index, t[1], t[2])})

QueryTagsOr(index, tags) ==
    NamesOf(index, UNION {GetBitmap(index, t[1], t[2]) : t \in Range(tags)})

(* serialize, as the device table and the tag table it writes.             *)
SerializeTags(index) ==
    [devices |-> index.device_id_to_name, tags |-> index.tag_index]

\* Mutant: the counter of ids starts again.
DeserializeTags_RestartsIds(written) ==
    [tag_index |-> written.tags, device_id_to_name |-> written.devices,
     device_name_to_id |->
        [name \in Range(written.devices) |->
            CHOOSE id \in DOMAIN written.devices : written.devices[id] = name],
     next_device_id |-> 0]

(* The reverse map and the next id are built again from the device table.  *)
DeserializeTags(written) ==
    [tag_index |-> written.tags, device_id_to_name |-> written.devices,
     device_name_to_id |->
        [name \in Range(written.devices) |->
            CHOOSE id \in DOMAIN written.devices : written.devices[id] = name],
     next_device_id |-> Max({0} \cup {id + 1 : id \in DOMAIN written.devices})]
=============================================================================
