---------------------------- MODULE MCBuildPlan ----------------------------
(* The build script for every selection of features and target for TLC.     *)
EXTENDS BuildPlan

\* Cargo enables what a feature implies.
Selections == {F \in SUBSET Features :
                   /\ F \cap {"cuda-cutlass", "triton-aot"} # {} => "cuda" \in F
                   /\ "mlx" \in F => "metal" \in F}

\* Any environment for every selection, except that CUTLASS, without its feature, is
\* unset, and MLX unset or complete.
MCInputs ==
    UNION {[features: {F}, target: Targets,
            cuda_architectures: CUDA_ARCHITECTURES \cup {"unset", "unsupported"},
            cutlass_dir: IF "cuda-cutlass" \in F THEN Roots ELSE {"unset"},
            mlx_root: IF "mlx" \in F THEN Roots \ {"old"} ELSE {"unset", "ok"},
            sanitizer: Sanitizers \cup {"unset", "OFF", "unsupported", "not UTF-8"}] :
           F \in Selections}
=============================================================================
