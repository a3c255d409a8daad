---------------------------- MODULE MCInspections ----------------------------
(* A small instance of Inspections for TLC. *)
EXTENDS Inspections, TLC

CONSTANTS sx, sl, kx, kl, oo, rx, rl, vs, vq, vo, es, ew

HeldIn(family, vae, llm) == [family |-> family, vae |-> vae, llm |-> llm]

\* Models with a part embedded (x) or lacking (l), of every kind of family; refiners.
MCHolds == sx :> HeldIn("sdxl-base", "embedded", TRUE)   @@ sl :> HeldIn("sdxl-base", "lacking", TRUE)
        @@ kx :> HeldIn("krea2", "embedded", TRUE)       @@ kl :> HeldIn("krea2", "lacking", FALSE)
        @@ oo :> HeldIn("other", "unsupported", TRUE)
        @@ rx :> HeldIn("sdxl-refiner", "embedded", TRUE) @@ rl :> HeldIn("sdxl-refiner", "lacking", TRUE)

MCSuits  == "sdxl-base" :> {vs, vo} @@ "krea2" :> {vq}
MCShared == "sdxl-base" :> vs @@ "krea2" :> vq

Wanting(models, vaes, llms, refiners) == [model : models, vae : vaes, llm : llms, refiner : refiners]
MCAsking == Wanting({sx, sl}, {NoPart, vo, vq}, {NoPart}, {NoPart, rx, rl, sx})
            \cup Wanting({kx, kl}, {NoPart, vq, vs}, {NoPart, es, ew}, {NoPart})
            \cup Wanting({oo}, {NoPart, vs}, {NoPart}, {NoPart, rx})
=============================================================================
