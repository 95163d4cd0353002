--------------------------- MODULE ParticleFields ---------------------------
(***************************************************************************)
(* The per-particle fields that follow a particle through ParticleData.    *)
(* All of them move with the tag, in every operation, except two:          *)
(* addParticle() does not set the angular momentum and the moment of       *)
(* inertia, and removeParticle() does not move them with the last particle *)
(* (ParticleData.cc).  intact is the set of tags of particles whose two    *)
(* fields are the ones given to that particle; used counts the indices of  *)
(* rank 0 that have held a particle since its arrays were last allocated   *)
(* (and cleared).                                                          *)
(***************************************************************************)
EXTENDS ParticleData

VARIABLES intact, used

fvars == <<vars, intact, used>>

FieldsInit == /\ Init
              /\ intact = m_tag_set
              /\ used = pd[Root].m_nparticles

\* initializeFromSnapshot() allocates and sets every field of every particle.
FieldsFromSnapshot(k, place) == /\ InitializeFromSnapshot(k, place)
                                /\ intact' = m_tag_set'
                                /\ used' = pd'[Root].m_nparticles

Touched == used' = IF pd'[Root].m_nparticles > used
                   THEN pd'[Root].m_nparticles ELSE used

\* The fields of the new particle are what its index holds in memory: zeros,
\* or what a particle left there.
FieldsOfNew ==
    /\ AddParticle
    /\ \/ intact' = intact \cup {NewTag}
       \/ intact' = intact \ {NewTag} /\ pd[Root].m_nparticles < used
    /\ Touched

\* The last particle of the owner finds the removed particle's fields at its
\* new index.
LastTags(tag) == {pd[r].m_tag[pd[r].m_nparticles - 1] : r \in Owners(tag)}
FieldsOnRemove(tag) == /\ RemoveParticle(tag)
                       /\ intact' = (intact \ LastTags(tag)) \ {tag}
                       /\ UNCHANGED used

\* setAngularMomentum(), setMomentsOfInertia() by tag.
SetFields(tag) == /\ Quiet
                  /\ tag < m_rtag_size /\ Owners(tag) # {}
                  /\ intact' = intact \cup {tag}
                  /\ UNCHANGED <<vars, used>>

FieldsMove ==
    /\ \/ \E tag \in Tags : RemoveParticleThrows(tag)
       \/ maybe_rebuild_tag_cache
       \/ \E tag \in Tags, r \in Ranks : SetPosition(tag, r)
       \/ \E neighbor \in Shifts, left \in [Ranks -> SUBSET Tags] :
             Migrate(neighbor, left)
       \/ \E r \in Ranks : OneRank(r)
    /\ UNCHANGED intact
    /\ Touched

FieldsNext ==
    \/ \E k \in 0 .. MaxTags : \E place \in [0 .. (k - 1) -> Ranks] :
          FieldsFromSnapshot(k, place)
    \/ FieldsOfNew
    \/ \E tag \in Tags : FieldsOnRemove(tag) \/ SetFields(tag)
    \/ FieldsMove

FieldsSpec == FieldsInit /\ [][FieldsNext]_fvars

\* "move the last element to to the position of the removed element"
\* (removeParticle()): a particle that survives a step keeps its own angular
\* momentum and moment of inertia.
SurvivorsKeepFields ==
    [][\A t \in m_tag_set \cap m_tag_set' : t \in intact => t \in intact']_fvars
=============================================================================
